---- MODULE Spec2Model ----
(***************************************************************************)
(* contentforge: the publication workflow (PublicationWorkflow), the       *)
(* version store (VersionManager) and the human review queue               *)
(* (HumanReviewInterface), modelled as one state machine.                  *)
(*                                                                         *)
(* The run (start_publication) is one coroutine.  It is suspended exactly  *)
(* while a provider call is in flight (the research fan-out, or one call   *)
(* of a serial phase); cancel_workflow and the review-queue operations of  *)
(* other callers run only at those points, or before and after the run.    *)
(* The application (app.py) also builds a HumanFeedback object, which      *)
(* constructs a HumanReviewInterface of its own.                           *)
(* Chapter configurations carry a title, so _initialize_chapters does not  *)
(* suspend.                                                                *)
(***************************************************************************)
EXTENDS Integers, Sequences, FiniteSets, TLC

VARIABLES
    pc,                \* position of the start_publication coroutine
    n,                 \* len(chapters) of the run
    idx,               \* loop variable of the serial phase (position in the chapter list)
    inflight,          \* chapters whose provider call is in flight
    loaded,            \* per step coroutine: the version it read before its provider call
    results,           \* results of the research tasks collected by asyncio.gather
    chapters,          \* the Chapter objects, by position in the chapter list
    current_phase,     \* PublicationWorkflow.current_phase
    workflow_stats,    \* PublicationWorkflow.workflow_stats (the counters)
    store,             \* the ChromaDB collection of VersionManager, by id
    pending_reviews,   \* HumanReviewInterface.pending_reviews
    completed_reviews, \* HumanReviewInterface.completed_reviews
    nextId,            \* number of uuid4() values the run has drawn
    callerIds,         \* number of uuid4() values drawn in calls of other callers
    result,            \* return value of start_publication
    review_interface,  \* HumanFeedback.review_interface: its own HumanReviewInterface
    current_session,   \* HumanFeedback.current_session
    last               \* the operation that acted last, with its argument and return value

vars == <<pc, n, idx, inflight, loaded, results, chapters, current_phase,
          workflow_stats, store, pending_reviews, completed_reviews, nextId,
          callerIds, result, review_interface, current_session, last>>

runVars == <<pc, n, idx, inflight, loaded, results, chapters, current_phase,
             workflow_stats, store, result>>

queueVars == <<pending_reviews, completed_reviews, callerIds>>

feedbackVars == <<review_interface, current_session>>

-----------------------------------------------------------------------------
(* Bounds *)

MaxChapters == 2      \* chapters in a publication config
MaxReviews == 2       \* review requests ever submitted to the queue
MaxVersions == 2      \* version ids handed to the store on its own
MaxTime == 2          \* creation times of the versions handed to the store

-----------------------------------------------------------------------------
(* Values *)

None == "None"                     \* Python None
Unset == "<unset>"                 \* an attribute never assigned
EmptyMap == [k \in {} |-> ""]      \* {}
NoVersion == [id |-> None]         \* None where a ContentVersion is expected

Truthy(x) == x \notin {None, ""}    \* `if x:` for a string or None

\* str(uuid.uuid4()): fresh values, drawn from two disjoint families
Uuid(k) == "u" \o ToString(k)
CallerUuid(k) == "q" \o ToString(k)

ChapterPositions == 1..MaxChapters
ChapterId(c) == "c" \o ToString(c)
ChapterTitle(c) == "T" \o ToString(c)
PUBLICATION == "PUBLICATION"

\* metadata values: a type tag and the text str() gives
MetaStr(s) == [t |-> "str", v |-> s]
MetaInt(s) == [t |-> "int", v |-> s]
MetaList(s) == [t |-> "list", v |-> s]

PhaseOrder == <<"research", "drafting", "spinning", "review", "human_review",
                "finalization", "publication", "completed">>

PublicationPhase == {PhaseOrder[i] : i \in 1..Len(PhaseOrder)} \cup {"failed"}

SerialPhases == {"drafting", "spinning", "review", "human_review", "finalization"}

PhaseIndex(p) == CHOOSE i \in 1..Len(PhaseOrder) : PhaseOrder[i] = p

\* datetime.now(): a logical clock, the number of uuids drawn so far
Now == nextId + callerIds

MaxClock == 40        \* the largest timestamp the store has to read back
Timestamps == 0..MaxClock

\* datetime.isoformat and datetime.fromisoformat
IsoFormat(t) == ToString(t)
FromIsoFormat(s) == CHOOSE t \in Timestamps : IsoFormat(t) = s

\* every construction in the code passes created_at = datetime.now()
ContentVersion(id, chapter_id, content, status, agent_type, metadata, parent) ==
    [id |-> IF id = "" THEN Unset ELSE id,
     chapter_id |-> chapter_id,
     content |-> content,
     status |-> status,
     agent_type |-> agent_type,
     metadata |-> metadata,
     created_at |-> Now,
     parent_version_id |-> parent]

-----------------------------------------------------------------------------
(* VersionManager *)

\* the metadata ChromaDB keeps: every value of version.metadata through str()
StoredMeta(metadata) == [k \in DOMAIN metadata |-> MetaStr(metadata[k].v)]

\* ContentVersion.get_content_hash: the md5 digest of the content
get_content_hash(v) == "md5(" \o v.content \o ")"

StoredEntry(v) ==
    [document |-> v.content,
     version_id |-> v.id,
     chapter_id |-> v.chapter_id,
     status |-> v.status,
     agent_type |-> v.agent_type,
     created_at |-> IsoFormat(v.created_at),
     parent_version_id |-> IF v.parent_version_id = None THEN "" ELSE v.parent_version_id,
     content_length |-> Len(v.content),
     content_hash |-> get_content_hash(v),
     meta |-> StoredMeta(v.metadata)]

\* faulty variant of SaveResult: the content is not validated
SaveResultAnyContent(v, dbOk) ==
    /\ v.id # ""
    /\ v.chapter_id # ""
    /\ dbOk

\* save_version's return value; dbOk is whether collection.add succeeds
SaveResult(v, dbOk) ==
    /\ v.id # ""
    /\ v.chapter_id # ""
    /\ v.content # ""
    /\ dbOk

save_version(st, v, dbOk) ==
    IF SaveResult(v, dbOk) THEN [i \in DOMAIN st \cup {v.id} |->
                                    IF i = v.id THEN StoredEntry(v) ELSE st[i]]
    ELSE st

get_version(st, id) ==
    IF id \in DOMAIN st /\ st[id].document # ""
    THEN [ContentVersion(st[id].version_id, st[id].chapter_id, st[id].document,
                         st[id].status, st[id].agent_type, st[id].meta,
                         IF st[id].parent_version_id # "" THEN st[id].parent_version_id
                         ELSE None)
          EXCEPT !.created_at = FromIsoFormat(st[id].created_at)]
    ELSE NoVersion

\* versions.sort(key=lambda x: x.created_at): ascending by created_at; versions
\* with equal created_at stay in the order the collection returned them, which the
\* library leaves unspecified
RECURSIVE SortByCreatedAt(_)
SortByCreatedAt(versions) ==
    IF versions = {} THEN <<>>
    ELSE LET first == CHOOSE x \in versions : \A y \in versions : x.created_at <= y.created_at
         IN <<first>> \o SortByCreatedAt(versions \ {first})

get_chapter_versions(st, chapter_id) ==
    SortByCreatedAt({get_version(st, id) : id \in {i \in DOMAIN st : st[i].chapter_id = chapter_id}})

\* `[v for v in versions if v.status == status]`, for a status that is given
WithStatus(versions, status) ==
    IF status = None THEN versions
    ELSE SelectSeq(versions, LAMBDA v : v.status = status)

\* faulty variant of MaxByCreatedAt: the first version of the list is taken
FirstByCreatedAt(versions) == versions[1]

\* max(versions, key=lambda x: x.created_at): the first of the maximal ones
MaxByCreatedAt(versions) ==
    versions[CHOOSE i \in 1..Len(versions) :
                /\ \A j \in 1..Len(versions) : versions[j].created_at <= versions[i].created_at
                /\ \A j \in 1..(i - 1) : versions[j].created_at < versions[i].created_at]

get_latest_version(st, chapter_id, status) ==
    LET versions == WithStatus(get_chapter_versions(st, chapter_id), status)
    IN IF versions = <<>> THEN NoVersion ELSE MaxByCreatedAt(versions)

\* get_version_tree: the dictionary it builds, as a map from its top-level keys to
\* nodes; a node made for a version carries the version's fields, a stub made for a
\* parent that has no top-level node carries only id and children
VersionInfo(version) ==
    [id |-> version.id,
     status |-> version.status,
     agent_type |-> version.agent_type,
     created_at |-> IsoFormat(version.created_at),
     content_length |-> Len(version.content),
     children |-> <<>>]

StubNode(id) == [id |-> id, children |-> <<>>]

\* the body of `for version in versions`
TreeWith(tree, version) ==
    IF Truthy(version.parent_version_id)
    THEN LET parent == version.parent_version_id
             withParent == IF parent \notin DOMAIN tree
                           THEN [k \in DOMAIN tree \cup {parent} |->
                                    IF k = parent THEN StubNode(parent) ELSE tree[k]]
                           ELSE tree
         IN [withParent EXCEPT ![parent].children = Append(@, VersionInfo(version))]
    ELSE [k \in DOMAIN tree \cup {version.id} |->
             IF k = version.id THEN VersionInfo(version) ELSE tree[k]]

RECURSIVE BuildTree(_, _)
BuildTree(tree, versions) ==
    IF versions = <<>> THEN tree
    ELSE BuildTree(TreeWith(tree, Head(versions)), Tail(versions))

get_version_tree(st, chapter_id) ==
    BuildTree([k \in {} |-> StubNode(k)], get_chapter_versions(st, chapter_id))

\* similarities and distances are counted in tenths: One is 1.0
One == 10
SIMILARITY_THRESHOLD == 8
MAX_SEARCH_RESULTS == 5

\* collection.query: the n_results nearest of the documents that pass the where
\* clause, nearest first; documents at equal distance come in the library's order
RECURSIVE NearestFirst(_, _, _)
NearestFirst(ids, distance, n_results) ==
    IF ids = {} \/ n_results = 0 THEN <<>>
    ELSE LET first == CHOOSE x \in ids : \A y \in ids : distance[x] <= distance[y]
         IN <<first>> \o NearestFirst(ids \ {first}, distance, n_results - 1)

\* `if similarity < (1.0 - Config.SIMILARITY_THRESHOLD): continue`
BelowThreshold(similarity) == similarity < One - SIMILARITY_THRESHOLD

\* search_similar_content: distance gives, for each stored document, its distance
\* to the query text; n_results 0 stands for the falsy values None and 0 of
\* `n_results or Config.MAX_SEARCH_RESULTS`
search_similar_content(st, distance, chapter_id, n_results, status_filter) ==
    LET limit == IF n_results = 0 THEN MAX_SEARCH_RESULTS ELSE n_results
        passing == {id \in DOMAIN st :
                       /\ Truthy(chapter_id) => st[id].chapter_id = chapter_id
                       /\ Truthy(status_filter) => st[id].status = status_filter}
        found == NearestFirst(passing, distance, limit)
        pairs == [i \in 1..Len(found) |->
                     [version |-> get_version(st, found[i]),
                      similarity |-> One - distance[found[i]]]]
    IN SelectSeq(pairs, LAMBDA p : ~BelowThreshold(p.similarity))

\* delete_version: collection.delete does not look whether the id exists
delete_version_result(st, version_id, dbOk) == dbOk

delete_version(st, version_id, dbOk) ==
    IF dbOk /\ version_id \in DOMAIN st
    THEN [i \in DOMAIN st \ {version_id} |-> st[i]]
    ELSE st

-----------------------------------------------------------------------------
(* HumanReviewInterface: the operations as functions of the two collections *)

PreviewLimit == 200

NoDetails == [review_id |-> None]     \* get_review_details returning None
NoSession == [review_id |-> None]     \* HumanFeedback.current_session = None
UnsetMap == [unset |-> Unset]         \* review.metadata before bulk_assign_reviews sets it

ReviewRequest(id, chapter_id, version, review_type) ==
    [id |-> id,
     chapter_id |-> chapter_id,
     version |-> version,
     review_type |-> review_type,
     status |-> "pending",
     reviewer_notes |-> "",
     metadata |-> UnsetMap]

Put(map, key, value) == [k \in DOMAIN map \cup {key} |-> IF k = key THEN value ELSE map[k]]

Remove(map, key) == [k \in DOMAIN map \ {key} |-> map[k]]

\* self.pending_reviews after submit_for_human_review; review_id is its return value
submit_for_human_review(pending, review_id, chapter_id, version, review_type) ==
    Put(pending, review_id, ReviewRequest(review_id, chapter_id, version, review_type))

\* faulty variant of get_pending_reviews: the status of a request is not looked at
get_pending_any_status(pending, chapter_id, review_type) ==
    {r \in DOMAIN pending :
        /\ ~(Truthy(chapter_id) /\ pending[r].chapter_id # chapter_id)
        /\ ~(Truthy(review_type) /\ pending[r].review_type # review_type)}

\* `if chapter_id and ...`, `if review_type and ...`: None and "" mean no filter
get_pending_reviews(pending, chapter_id, review_type) ==
    {r \in DOMAIN pending :
        /\ pending[r].status = "pending"
        /\ ~(Truthy(chapter_id) /\ pending[r].chapter_id # chapter_id)
        /\ ~(Truthy(review_type) /\ pending[r].review_type # review_type)}

ContentPreview(content) ==
    IF Len(content) > PreviewLimit
    THEN SubSeq(content, 1, PreviewLimit) \o "..."
    ELSE content

get_review_details(pending, completed, review_id) ==
    IF review_id \notin DOMAIN pending \cup DOMAIN completed
    THEN NoDetails
    ELSE LET review == IF review_id \in DOMAIN pending THEN pending[review_id]
                       ELSE completed[review_id]
         IN [review_id |-> review_id,
             chapter_id |-> review.chapter_id,
             review_type |-> review.review_type,
             status |-> review.status,
             version_info |-> [version_id |-> review.version.id,
                               status |-> review.version.status,
                               agent_type |-> review.version.agent_type,
                               content_length |-> Len(review.version.content),
                               content_preview |-> ContentPreview(review.version.content)],
             reviewer_notes |-> review.reviewer_notes]

\* faulty variant of CompletedVersion: the new version loses its parent
CompletedVersionNoParent(review, new_id, updated_content, feedback, reviewer_name) ==
    ContentVersion(new_id, review.chapter_id, updated_content, "human_edited", "human_editor",
                   [feedback |-> MetaStr(feedback),
                    review_id |-> MetaStr(review.id),
                    reviewer_name |-> MetaStr(reviewer_name),
                    review_type |-> MetaStr(review.review_type),
                    review_completed_at |-> MetaStr("now")],
                   None)

\* the ContentVersion complete_review builds for a request of the pending collection
CompletedVersion(review, new_id, updated_content, feedback, reviewer_name) ==
    ContentVersion(new_id, review.chapter_id, updated_content, "human_edited", "human_editor",
                   [feedback |-> MetaStr(feedback),
                    review_id |-> MetaStr(review.id),
                    reviewer_name |-> MetaStr(reviewer_name),
                    review_type |-> MetaStr(review.review_type),
                    review_completed_at |-> MetaStr("now")],
                   review.version.id)

\* complete_review: its return value, then the two collections after it
complete_review_result(pending, review_id, new_id, updated_content, feedback, reviewer_name) ==
    IF review_id \notin DOMAIN pending THEN NoVersion
    ELSE CompletedVersion(pending[review_id], new_id, updated_content, feedback, reviewer_name)

\* faulty variant of complete_review_pending: the completed request is not deleted
\* from the pending collection
complete_review_keeps(pending, review_id) == pending

complete_review_pending(pending, review_id) ==
    IF review_id \notin DOMAIN pending THEN pending ELSE Remove(pending, review_id)

\* faulty variant of complete_review_completed: a request that is already in the
\* completed collection gets the new feedback as its notes
complete_review_overwrites(pending, completed, review_id, feedback) ==
    IF review_id \in DOMAIN pending
    THEN Put(completed, review_id,
             [pending[review_id] EXCEPT !.status = "completed", !.reviewer_notes = feedback])
    ELSE IF review_id \in DOMAIN completed
    THEN [completed EXCEPT ![review_id].reviewer_notes = "overwritten"]
    ELSE completed

complete_review_completed(pending, completed, review_id, feedback) ==
    IF review_id \notin DOMAIN pending THEN completed
    ELSE Put(completed, review_id,
             [pending[review_id] EXCEPT !.status = "completed", !.reviewer_notes = feedback])

\* reject_review: its return value, then the pending collection after it
reject_review_result(pending, review_id) == review_id \in DOMAIN pending

\* faulty variant of reject_review_pending: the rejected request is deleted
reject_review_removes(pending, review_id, reason) ==
    IF review_id \notin DOMAIN pending THEN pending ELSE Remove(pending, review_id)

reject_review_pending(pending, review_id, reason) ==
    IF review_id \notin DOMAIN pending THEN pending
    ELSE [pending EXCEPT ![review_id] = [@ EXCEPT !.status = "rejected",
                                                  !.reviewer_notes = reason]]

\* bulk_assign_reviews: its return value, then the pending collection after it
bulk_assign_result(pending, review_ids) == [r \in review_ids |-> r \in DOMAIN pending]

bulk_assign_pending(pending, reviewer_name, review_ids) ==
    [r \in DOMAIN pending |->
        IF r \in review_ids
        THEN [pending[r] EXCEPT !.metadata =
                 Put(Put(pending[r].version.metadata, "assigned_reviewer", MetaStr(reviewer_name)),
                     "assigned_at", MetaStr("now"))]
        ELSE pending[r]]

\* the dictionary review_content returns for the request it has just submitted
ReviewContentFeedback(details, content, review_id) ==
    IF details = NoDetails
    THEN [requires_changes |-> FALSE, feedback |-> "No review details available",
          edited_content |-> content, review_id |-> review_id]
    ELSE IF details.status = "completed"
    THEN [requires_changes |-> TRUE, feedback |-> details.reviewer_notes,
          edited_content |-> details.version_info.content_preview, review_id |-> review_id]
    ELSE [requires_changes |-> FALSE, feedback |-> "Review pending",
          edited_content |-> content, review_id |-> review_id]

\* the return statement of review_content for a completed review, whatever the status
\* of the request it reads
CompletedReviewFeedback(details, content, review_id) ==
    IF details = NoDetails
    THEN ReviewContentFeedback(details, content, review_id)
    ELSE [requires_changes |-> TRUE, feedback |-> details.reviewer_notes,
          edited_content |-> details.version_info.content_preview, review_id |-> review_id]

-----------------------------------------------------------------------------
(* The run: start_publication *)

Chapter(c, versionId) ==
    [id |-> ChapterId(c),
     title |-> ChapterTitle(c),
     current_phase |-> "research",
     research_version_id |-> None,
     draft_version_id |-> Unset,
     spun_version_id |-> Unset,
     reviewed_version_id |-> Unset,
     final_version_id |-> Unset,
     versions |-> <<versionId>>,
     current_version |-> versionId,
     metadata |-> EmptyMap,
     completed_at |-> Unset]

add_version(ch, versionId) ==
    [ch EXCEPT !.versions = Append(@, versionId), !.current_version = versionId]

NoLoaded == [c \in ChapterPositions |-> NoVersion]

Init ==
    /\ pc = "idle"
    /\ n = 0
    /\ idx = 1
    /\ inflight = {}
    /\ loaded = NoLoaded
    /\ results = [c \in ChapterPositions |-> "none"]
    /\ chapters = <<>>
    /\ current_phase = "initialization"
    /\ workflow_stats = [total_chapters |-> 0, completed_chapters |-> 0, failed_chapters |-> 0]
    /\ store = EmptyMap
    /\ pending_reviews = EmptyMap
    /\ completed_reviews = EmptyMap
    /\ nextId = 0
    /\ callerIds = 0
    /\ result = "none"
    /\ review_interface = [pending_reviews |-> EmptyMap, completed_reviews |-> EmptyMap]
    /\ current_session = NoSession
    /\ last = [op |-> "init", arg |-> None, ret |-> None]

\* start_publication up to its first suspension: _initialize_chapters, then
\* _research_phase creates one task per chapter and awaits asyncio.gather
StartPublication(k) ==
    /\ pc = "idle"
    /\ n' = k
    /\ chapters' = [c \in 1..k |-> Chapter(c, Uuid(nextId + c))]
    /\ nextId' = nextId + k
    /\ workflow_stats' = [workflow_stats EXCEPT !.total_chapters = k]
    /\ IF k = 0
       THEN /\ pc' = "done"
            /\ result' = "false"
            /\ current_phase' = "initialization"
            /\ inflight' = {}
       ELSE /\ pc' = "research"
            /\ result' = result
            /\ current_phase' = "research"
            /\ inflight' = 1..k
    /\ last' = [op |-> "start_publication", arg |-> k, ret |-> None]
    /\ UNCHANGED <<idx, loaded, results, store, queueVars>>
    /\ UNCHANGED feedbackVars

ResearchOutcomes == {"raise", "empty", "content"}

ResearchMetadata(c) ==
    [title |-> MetaStr(ChapterTitle(c)), total_sources |-> MetaInt("1")]

\* faulty variant of ResearchCompleted: the version is recorded on every chapter of the run
ResearchCompletedOnAll(chs, c, version_id) ==
    [d \in DOMAIN chs |->
        add_version([chs[d] EXCEPT !.research_version_id = version_id], version_id)]

\* the end of _research_chapter: the task records the saved version on its own chapter
ResearchCompleted(chs, c, version_id) ==
    [chs EXCEPT ![c] = add_version([@ EXCEPT !.research_version_id = version_id], version_id)]

\* _research_chapter from the return of web_scraper.research_topic to its end
ResearchChapterReturns(c, outcome, dbOk) ==
    /\ pc = "research"
    /\ c \in inflight
    /\ inflight' = inflight \ {c}
    /\ LET content == IF outcome = "content" THEN "research" ELSE ""
           research_version == ContentVersion(Uuid(nextId + 1), chapters[c].id, content,
                                              "scraped", "scraper", ResearchMetadata(c), None)
           ok == outcome # "raise" /\ content # "" /\ SaveResult(research_version, dbOk)
       IN /\ IF outcome = "raise" \/ content = ""
             THEN UNCHANGED <<store, nextId>>
             ELSE /\ store' = save_version(store, research_version, dbOk)
                  /\ nextId' = nextId + 1
          /\ chapters' = IF ok THEN ResearchCompleted(chapters, c, research_version.id)
                         ELSE chapters
          /\ results' = [results EXCEPT ![c] = IF ok THEN "true" ELSE "false"]
          /\ last' = [op |-> "_research_chapter", arg |-> c, ret |-> ok]
    /\ UNCHANGED <<pc, n, idx, loaded, current_phase, workflow_stats, queueVars, result>>
    /\ UNCHANGED feedbackVars

\* the phase _research_phase gives a chapter for its task's gather result
ResearchResultPhase(r) == IF r = "exception" THEN "failed" ELSE "drafting"

\* _research_phase after asyncio.gather, then the entry of _drafting_phase
ResearchGathered ==
    /\ pc = "research"
    /\ inflight = {}
    /\ chapters' = [c \in 1..n |->
                      [chapters[c] EXCEPT !.current_phase = ResearchResultPhase(results[c])]]
    /\ pc' = "drafting"
    /\ current_phase' = "drafting"
    /\ idx' = 1
    /\ last' = [op |-> "_research_phase", arg |-> None, ret |-> None]
    /\ UNCHANGED <<n, inflight, loaded, results, workflow_stats, store, queueVars, nextId, result>>
    /\ UNCHANGED feedbackVars

-----------------------------------------------------------------------------
(* The serial phases: one for-loop over the chapter list each *)

\* the phase function entered after a serial phase function returns
FollowingPhase(p) ==
    CASE p = "drafting" -> "spinning"
      [] p = "spinning" -> "review"
      [] p = "review" -> "human_review"
      [] p = "human_review" -> "finalization"
      [] p = "finalization" -> "publication"

\* faulty variant of SerialReady: any later chapter may start, whatever is in flight
SerialReadyAny(i, fl) == (i..MaxChapters) \ fl

\* the chapters whose step the loop may start: the one at the loop variable,
\* and only when the previous step's await has returned
SerialReady(i, fl) == IF fl = {} THEN {i} ELSE {}

\* success branch of a phase loop: chapter.current_phase = <next phase>
StepSucceeded(chs, c, p) == [chs EXCEPT ![c].current_phase = p]

\* faulty variant of StepFailed: one chapter's failure fails every chapter
StepFailedAll(chs, c) == [d \in DOMAIN chs |-> [chs[d] EXCEPT !.current_phase = "failed"]]

\* failure branch of a phase loop: chapter.current_phase = FAILED
StepFailed(chs, c) == [chs EXCEPT ![c].current_phase = "failed"]

CountFailed(stats) == [stats EXCEPT !.failed_chapters = @ + 1]

\* `if chapter.current_phase != <phase>: continue`
LoopSkips ==
    /\ pc \in SerialPhases
    /\ inflight = {}
    /\ idx <= n
    /\ chapters[idx].current_phase # pc
    /\ idx' = idx + 1
    /\ last' = [op |-> "continue", arg |-> idx, ret |-> None]
    /\ UNCHANGED <<pc, n, inflight, loaded, results, chapters, current_phase,
                   workflow_stats, store, queueVars, nextId, result>>
    /\ UNCHANGED feedbackVars

\* the for-loop of a serial phase is exhausted: the next phase function starts
\* (self.current_phase = <phase>)
PhaseCompleted ==
    /\ pc \in SerialPhases
    /\ inflight = {}
    /\ idx = n + 1
    /\ pc' = FollowingPhase(pc)
    /\ current_phase' = FollowingPhase(pc)
    /\ idx' = 1
    /\ last' = [op |-> "phase_completed", arg |-> pc, ret |-> None]
    /\ UNCHANGED <<n, inflight, loaded, results, chapters, workflow_stats, store,
                   queueVars, nextId, result>>
    /\ UNCHANGED feedbackVars

\* a step that returns False before its provider call (no version to work on)
StepWithoutInput(name, c) ==
    /\ chapters' = StepFailed(chapters, c)
    /\ workflow_stats' = CountFailed(workflow_stats)
    /\ idx' = c + 1
    /\ last' = [op |-> name, arg |-> c, ret |-> FALSE]
    /\ UNCHANGED <<pc, n, inflight, loaded, results, current_phase, store, queueVars,
                   nextId, result>>

\* a step suspends on its provider call, holding the version it read
StepAwaits(name, c, version) ==
    /\ inflight' = inflight \cup {c}
    /\ loaded' = [loaded EXCEPT ![c] = version]
    /\ last' = [op |-> name, arg |-> c, ret |-> None]
    /\ UNCHANGED <<pc, n, idx, results, chapters, current_phase, workflow_stats, store,
                   queueVars, nextId, result>>

\* the loop body after `success = await self._<step>_chapter(chapter)`
StepReturned(name, c, outcome, success, chs, nextPhase) ==
    /\ chapters' = IF success THEN StepSucceeded(chs, c, nextPhase) ELSE StepFailed(chs, c)
    /\ workflow_stats' = IF success THEN workflow_stats ELSE CountFailed(workflow_stats)
    /\ inflight' = inflight \ {c}
    /\ loaded' = [loaded EXCEPT ![c] = NoVersion]
    /\ idx' = c + 1
    /\ last' = [op |-> name, arg |-> c, ret |-> success, outcome |-> outcome]

(* Drafting *)

GenerateOutcomes == {"raise", "empty", "text"}

\* _drafting_phase loop body up to `await self.llm_agent.generate_content`
DraftChapterBegins(c) ==
    /\ pc = "drafting"
    /\ c \in SerialReady(idx, inflight)
    /\ c <= n
    /\ chapters[c].current_phase = "drafting"
    /\ LET research_version == get_version(store, chapters[c].research_version_id)
       IN IF research_version = NoVersion
          THEN StepWithoutInput("_draft_chapter", c)
          ELSE StepAwaits("_draft_chapter", c, research_version)
    /\ UNCHANGED feedbackVars

\* faulty variant of DraftUsable: an empty draft is accepted
DraftUsableAlways(draft_content) == TRUE

\* `if not draft_content: return False`
DraftUsable(draft_content) == draft_content # ""

\* _draft_chapter from the return of generate_content, and the loop body after it
DraftChapterReturns(c, outcome, dbOk) ==
    /\ pc = "drafting"
    /\ c \in inflight
    /\ LET draft_content == IF outcome = "text" THEN "draft" ELSE ""
           draft_version == ContentVersion(Uuid(nextId + 1), chapters[c].id, draft_content,
                                           "ai_written", "ai_writer",
                                           [word_count |-> MetaInt("1"),
                                            target_length |-> MetaInt("2000")],
                                           loaded[c].id)
           success == outcome # "raise" /\ DraftUsable(draft_content)
       IN /\ IF success
             THEN /\ store' = save_version(store, draft_version, dbOk)
                  /\ nextId' = nextId + 1
             ELSE UNCHANGED <<store, nextId>>
          /\ StepReturned("_draft_chapter", c, outcome, success,
                          IF success
                          THEN [chapters EXCEPT ![c].draft_version_id = draft_version.id]
                          ELSE chapters,
                          "spinning")
    /\ UNCHANGED <<pc, n, results, current_phase, queueVars, result>>
    /\ UNCHANGED feedbackVars

(* Spinning *)

SpinOutcomes == {"raise", "empty", "same", "text"}

\* _spinning_phase loop body up to `await self.llm_agent.spin_content`
SpinChapterBegins(c) ==
    /\ pc = "spinning"
    /\ c \in SerialReady(idx, inflight)
    /\ c <= n
    /\ chapters[c].current_phase = "spinning"
    /\ LET draft_version == get_version(store, chapters[c].draft_version_id)
       IN IF draft_version = NoVersion
          THEN StepWithoutInput("_spin_chapter", c)
          ELSE StepAwaits("_spin_chapter", c, draft_version)
    /\ UNCHANGED feedbackVars

\* `if not spun_content or spun_content == draft_version.content`
SpinUsesDraft(spun_content, draft_version) ==
    spun_content = "" \/ spun_content = draft_version.content

\* _spin_chapter from the return of spin_content, and the loop body after it
SpinChapterReturns(c, outcome, dbOk) ==
    /\ pc = "spinning"
    /\ c \in inflight
    /\ LET draft_version == loaded[c]
           spun_content == CASE outcome = "text" -> "spun"
                             [] outcome = "same" -> draft_version.content
                             [] OTHER -> ""
           spun_version == ContentVersion(Uuid(nextId + 1), chapters[c].id, spun_content,
                                          "ai_written", "ai_writer",
                                          [original_draft_id |-> MetaStr(draft_version.id)],
                                          draft_version.id)
           success == outcome # "raise"
           creates == success /\ ~SpinUsesDraft(spun_content, draft_version)
       IN /\ IF creates
             THEN /\ store' = save_version(store, spun_version, dbOk)
                  /\ nextId' = nextId + 1
             ELSE UNCHANGED <<store, nextId>>
          /\ StepReturned("_spin_chapter", c, outcome, success,
                          IF creates
                          THEN [chapters EXCEPT ![c] =
                                  add_version([@ EXCEPT !.spun_version_id = spun_version.id],
                                              spun_version.id)]
                          ELSE IF success
                          THEN [chapters EXCEPT ![c].spun_version_id = draft_version.id]
                          ELSE chapters,
                          "review")
    /\ UNCHANGED <<pc, n, results, current_phase, queueVars, result>>
    /\ UNCHANGED feedbackVars

(* Review *)

ReviewOutcomes == {"raise", "none", "unimproved", "improved"}

\* _review_phase loop body up to `await self.llm_agent.review_content`
ReviewChapterBegins(c) ==
    /\ pc = "review"
    /\ c \in SerialReady(idx, inflight)
    /\ c <= n
    /\ chapters[c].current_phase = "review"
    /\ LET ch == chapters[c]
           version_to_review ==
               IF ch.spun_version_id = Unset THEN NoVersion
               ELSE IF Truthy(ch.spun_version_id) THEN get_version(store, ch.spun_version_id)
               ELSE IF ch.draft_version_id = Unset THEN NoVersion
               ELSE IF Truthy(ch.draft_version_id) THEN get_version(store, ch.draft_version_id)
               ELSE NoVersion
       IN IF version_to_review = NoVersion
          THEN StepWithoutInput("_review_chapter", c)
          ELSE StepAwaits("_review_chapter", c, version_to_review)
    /\ UNCHANGED feedbackVars

\* _review_chapter from the return of llm_agent.review_content, and the loop body after it
ReviewChapterReturns(c, outcome, dbOk) ==
    /\ pc = "review"
    /\ c \in inflight
    /\ LET version_to_review == loaded[c]
           improved_content == IF outcome = "improved" THEN "improved" ELSE ""
           reviewed_version == ContentVersion(Uuid(nextId + 1), chapters[c].id,
                                              improved_content, "ai_reviewed", "ai_reviewer",
                                              [review_score |-> MetaInt("8"),
                                               suggestions |-> MetaList("[]"),
                                               improvements_made |-> MetaList("[]")],
                                              version_to_review.id)
           success == outcome \notin {"raise", "none"}
           creates == success /\ improved_content # ""
       IN /\ IF creates
             THEN /\ store' = save_version(store, reviewed_version, dbOk)
                  /\ nextId' = nextId + 1
             ELSE UNCHANGED <<store, nextId>>
          /\ StepReturned("_review_chapter", c, outcome, success,
                          IF creates
                          THEN [chapters EXCEPT ![c].reviewed_version_id = reviewed_version.id]
                          ELSE IF success
                          THEN [chapters EXCEPT ![c].reviewed_version_id = version_to_review.id]
                          ELSE chapters,
                          "human_review")
    /\ UNCHANGED <<pc, n, results, current_phase, queueVars, result>>
    /\ UNCHANGED feedbackVars

(* Human review *)

\* _human_review_chapter's result once it has the feedback: the branch for
\* requires_changes reads ContentStatus.HUMAN_REVIEWED, which the enum does not
\* define, so the AttributeError is caught and the step returns False
HumanReviewSuccess(human_feedback) == ~human_feedback.requires_changes

\* _human_review_phase loop body for a chapter whose review_content call returns the
\* feedback of a pending review, or that of a completed one when `answered`;
\* human_interface.review_content has no suspension point, so the step runs to its end.  When the feedback requires changes
\* the step builds a ContentVersion with ContentStatus.HUMAN_REVIEWED and
\* AgentType.HUMAN, names the enums do not have: the AttributeError is caught and the
\* step returns False before save_version is reached.
HumanReviewChapterGiven(c, answered) ==
    /\ pc = "human_review"
    /\ c \in SerialReady(idx, inflight)
    /\ c <= n
    /\ chapters[c].current_phase = "human_review"
    /\ LET ch == chapters[c]
           reviewed_version == get_version(store, ch.reviewed_version_id)
           review_id == Uuid(nextId + 2)
           submitted == ContentVersion(Uuid(nextId + 1), ch.title, reviewed_version.content,
                                       "ai_reviewed", "ai_reviewer",
                                       [description |-> MetaStr("No description provided")],
                                       None)
           pending == submit_for_human_review(pending_reviews, review_id, ch.title,
                                              submitted, "general")
           details == get_review_details(pending, completed_reviews, review_id)
           human_feedback ==
               IF answered
               THEN CompletedReviewFeedback(details, reviewed_version.content, review_id)
               ELSE ReviewContentFeedback(details, reviewed_version.content, review_id)
           success == HumanReviewSuccess(human_feedback)
           withReviewId == [ch EXCEPT !.metadata =
                               IF Truthy(human_feedback.review_id)
                               THEN Put(@, "human_review_id", human_feedback.review_id)
                               ELSE @]
       IN IF reviewed_version = NoVersion
          THEN StepWithoutInput("_human_review_chapter", c)
          ELSE /\ pending_reviews' = pending
               /\ nextId' = nextId + 2
               /\ chapters' =
                     IF success
                     THEN StepSucceeded(
                              [chapters EXCEPT ![c] =
                                  [withReviewId EXCEPT !.final_version_id = reviewed_version.id]],
                              c, "finalization")
                     ELSE StepFailed([chapters EXCEPT ![c] = withReviewId], c)
               /\ workflow_stats' = IF success THEN workflow_stats
                                    ELSE CountFailed(workflow_stats)
               /\ idx' = c + 1
               /\ last' = [op |-> "_human_review_chapter", arg |-> c, ret |-> success,
                            requires_changes |-> human_feedback.requires_changes]
               /\ UNCHANGED <<pc, n, inflight, loaded, results, current_phase, store,
                              completed_reviews, callerIds, result>>
    /\ UNCHANGED feedbackVars

\* the step of the run: the feedback is what review_content returns for the request
\* it has just submitted
HumanReviewChapter(c) == HumanReviewChapterGiven(c, FALSE)

(* Finalization *)

\* update_version_status: its return value, then the collection after it
update_version_status_result(st, version_id, new_status, dbOk) ==
    LET version == get_version(st, version_id)
    IN /\ version # NoVersion
       /\ SaveResult([version EXCEPT !.status = new_status], dbOk)

update_version_status(st, version_id, new_status, dbOk) ==
    LET version == get_version(st, version_id)
    IN IF version = NoVersion THEN st
       ELSE save_version(Remove(st, version_id), [version EXCEPT !.status = new_status], dbOk)

CountCompleted(stats) == [stats EXCEPT !.completed_chapters = @ + 1]

\* _finalization_phase loop body; _finalize_chapter has no suspension point
FinalizeChapter(c, dbOk) ==
    /\ pc = "finalization"
    /\ c \in SerialReady(idx, inflight)
    /\ c <= n
    /\ chapters[c].current_phase = "finalization"
    /\ LET final_version == get_version(store, chapters[c].final_version_id)
       IN IF final_version = NoVersion
          THEN StepWithoutInput("_finalize_chapter", c)
          ELSE /\ store' = update_version_status(store, final_version.id, "published", dbOk)
               /\ chapters' = StepSucceeded([chapters EXCEPT ![c].completed_at = "set"],
                                            c, "publication")
               /\ workflow_stats' = CountCompleted(workflow_stats)
               /\ idx' = c + 1
               /\ last' = [op |-> "_finalize_chapter", arg |-> c, ret |-> TRUE]
               /\ UNCHANGED <<pc, n, inflight, loaded, results, current_phase, queueVars,
                              nextId, result>>
    /\ UNCHANGED feedbackVars

(* Publication *)

\* published_chapters: the chapters in phase publication whose final version is found
RECURSIVE PublishedChapters(_, _, _)
PublishedChapters(chs, st, c) ==
    IF c > Len(chs) THEN <<>>
    ELSE LET final_version == IF chs[c].current_phase = "publication"
                              THEN get_version(st, chs[c].final_version_id)
                              ELSE NoVersion
             rest == PublishedChapters(chs, st, c + 1)
         IN IF chs[c].current_phase = "publication" /\ final_version # NoVersion
            THEN <<[title |-> chs[c].title, content |-> final_version.content,
                    metadata |-> chs[c].metadata]>> \o rest
            ELSE rest

RECURSIVE DumpChapters(_)
DumpChapters(list) ==
    IF list = <<>> THEN ""
    ELSE "{title:" \o list[1].title \o ",content:" \o list[1].content \o ",metadata:{"
         \o (IF "human_review_id" \in DOMAIN list[1].metadata
             THEN "human_review_id:" \o list[1].metadata["human_review_id"] ELSE "")
         \o "}}" \o DumpChapters(Tail(list))

\* json.dumps(publication_content)
PublicationDocument(list) ==
    "{metadata:{total_chapters:" \o ToString(Len(list)) \o "},chapters:[" \o DumpChapters(list) \o "]}"

PublicationVersion(id, list) ==
    ContentVersion(id, PUBLICATION, PublicationDocument(list), "published", "system",
                   [total_chapters |-> MetaInt(ToString(Len(list))),
                    publication_type |-> MetaStr("book")],
                   None)

\* _publication_phase, then the end of _execute_workflow and of start_publication
PublicationPhaseRuns(dbOk) ==
    /\ pc = "publication"
    /\ store' = save_version(store,
                             PublicationVersion(Uuid(nextId + 1),
                                                PublishedChapters(chapters, store, 1)),
                             dbOk)
    /\ nextId' = nextId + 1
    /\ current_phase' = "completed"
    /\ pc' = "done"
    /\ result' = "true"
    /\ last' = [op |-> "start_publication", arg |-> n, ret |-> TRUE]
    /\ UNCHANGED <<n, idx, inflight, loaded, results, chapters, workflow_stats, queueVars>>
    /\ UNCHANGED feedbackVars

-----------------------------------------------------------------------------
(* Operations of other callers, at the run's suspension points *)

Suspended == pc \in {"idle", "research", "done"} \/ inflight # {}

\* a cancel_workflow that marks no chapter
CancelledPhaseKept(p) == p

\* the chapters' phases after cancel_workflow
CancelledPhase(p) == IF p \notin {"completed", "failed"} THEN "failed" ELSE p

CancelWorkflow ==
    /\ Suspended
    /\ current_phase' = "failed"
    /\ chapters' = [c \in DOMAIN chapters |->
                      [chapters[c] EXCEPT !.current_phase = CancelledPhase(@)]]
    /\ last' = [op |-> "cancel_workflow", arg |-> None, ret |-> TRUE]
    /\ UNCHANGED <<pc, n, idx, inflight, loaded, results, workflow_stats, store, queueVars,
                   nextId, result>>
    /\ UNCHANGED feedbackVars

ReviewTypes == {"general", "copy_edit"}

KnownReviewIds == DOMAIN pending_reviews \cup DOMAIN completed_reviews

\* the review ids a caller may pass: every id of the queue and one it never issued
ReviewIdInputs == KnownReviewIds \cup {"unknown"}

\* the versions another caller submits for review
SampleVersion(chapter_id) ==
    ContentVersion("s-" \o chapter_id, chapter_id, "sample", "ai_written", "ai_writer",
                   [word_count |-> MetaInt("1")], None)

SubmitForHumanReview(chapter_id, review_type) ==
    /\ Suspended
    /\ Cardinality(KnownReviewIds) < MaxReviews
    /\ LET review_id == CallerUuid(callerIds + 1)
       IN /\ pending_reviews' = submit_for_human_review(pending_reviews, review_id, chapter_id,
                                                        SampleVersion(chapter_id), review_type)
          /\ last' = [op |-> "submit_for_human_review", arg |-> chapter_id, ret |-> review_id]
    /\ callerIds' = callerIds + 1
    /\ UNCHANGED <<runVars, completed_reviews, nextId>>
    /\ UNCHANGED feedbackVars

CompleteReview(review_id, updated_content, feedback, reviewer_name) ==
    /\ Suspended
    /\ LET new_id == CallerUuid(callerIds + 1)
       IN /\ last' = [op |-> "complete_review",
                      arg |-> [review_id |-> review_id, updated_content |-> updated_content,
                               feedback |-> feedback, reviewer_name |-> reviewer_name],
                      ret |-> complete_review_result(pending_reviews, review_id, new_id,
                                                     updated_content, feedback, reviewer_name)]
          /\ pending_reviews' = complete_review_pending(pending_reviews, review_id)
          /\ completed_reviews' = complete_review_completed(pending_reviews, completed_reviews,
                                                            review_id, feedback)
          /\ callerIds' = IF review_id \in DOMAIN pending_reviews THEN callerIds + 1
                          ELSE callerIds
    /\ UNCHANGED <<runVars, nextId>>
    /\ UNCHANGED feedbackVars

RejectReview(review_id, reason) ==
    /\ Suspended
    /\ last' = [op |-> "reject_review", arg |-> [review_id |-> review_id, reason |-> reason],
                ret |-> reject_review_result(pending_reviews, review_id)]
    /\ pending_reviews' = reject_review_pending(pending_reviews, review_id, reason)
    /\ UNCHANGED <<runVars, completed_reviews, nextId, callerIds>>
    /\ UNCHANGED feedbackVars

BulkAssignReviews(reviewer_name, review_ids) ==
    /\ Suspended
    /\ last' = [op |-> "bulk_assign_reviews", arg |-> review_ids,
                ret |-> bulk_assign_result(pending_reviews, review_ids)]
    /\ pending_reviews' = bulk_assign_pending(pending_reviews, reviewer_name, review_ids)
    /\ UNCHANGED <<runVars, completed_reviews, nextId, callerIds>>
    /\ UNCHANGED feedbackVars

-----------------------------------------------------------------------------
(* Spec: a run of the workflow, with cancel_workflow and a reviewer who        *)
(* completes or rejects the run's review requests at its suspension points.    *)

Next ==
    \/ \E k \in 0..MaxChapters : StartPublication(k)
    \/ \E c \in ChapterPositions, o \in ResearchOutcomes, dbOk \in BOOLEAN :
          ResearchChapterReturns(c, o, dbOk)
    \/ ResearchGathered
    \/ LoopSkips
    \/ PhaseCompleted
    \/ \E c \in ChapterPositions : DraftChapterBegins(c)
    \/ \E c \in ChapterPositions, o \in GenerateOutcomes, dbOk \in BOOLEAN :
          DraftChapterReturns(c, o, dbOk)
    \/ \E c \in ChapterPositions : SpinChapterBegins(c)
    \/ \E c \in ChapterPositions, o \in SpinOutcomes, dbOk \in BOOLEAN :
          SpinChapterReturns(c, o, dbOk)
    \/ \E c \in ChapterPositions : ReviewChapterBegins(c)
    \/ \E c \in ChapterPositions, o \in ReviewOutcomes, dbOk \in BOOLEAN :
          ReviewChapterReturns(c, o, dbOk)
    \/ \E c \in ChapterPositions : HumanReviewChapter(c)
    \/ \E c \in ChapterPositions, dbOk \in BOOLEAN : FinalizeChapter(c, dbOk)
    \/ \E dbOk \in BOOLEAN : PublicationPhaseRuns(dbOk)
    \/ CancelWorkflow
    \/ \E r \in KnownReviewIds : CompleteReview(r, "edited", "looks good", "Alice")
    \/ \E r \in KnownReviewIds : RejectReview(r, "needs work")

Spec == Init /\ [][Next]_vars

\* The run alone, with review_content taken as a call whose feedback may be that of a
\* pending review or that of a completed one (the two return statements of lines
\* 369-383), as a human interface that answers during the call would give.
NextFeedback ==
    \/ \E k \in 0..MaxChapters : StartPublication(k)
    \/ \E c \in ChapterPositions, o \in ResearchOutcomes, dbOk \in BOOLEAN :
          ResearchChapterReturns(c, o, dbOk)
    \/ ResearchGathered
    \/ LoopSkips
    \/ PhaseCompleted
    \/ \E c \in ChapterPositions : DraftChapterBegins(c)
    \/ \E c \in ChapterPositions, o \in GenerateOutcomes, dbOk \in BOOLEAN :
          DraftChapterReturns(c, o, dbOk)
    \/ \E c \in ChapterPositions : SpinChapterBegins(c)
    \/ \E c \in ChapterPositions, o \in SpinOutcomes, dbOk \in BOOLEAN :
          SpinChapterReturns(c, o, dbOk)
    \/ \E c \in ChapterPositions : ReviewChapterBegins(c)
    \/ \E c \in ChapterPositions, o \in ReviewOutcomes, dbOk \in BOOLEAN :
          ReviewChapterReturns(c, o, dbOk)
    \/ \E c \in ChapterPositions : HumanReviewChapter(c)
    \/ \E c \in ChapterPositions : HumanReviewChapterGiven(c, TRUE)
    \/ \E c \in ChapterPositions, dbOk \in BOOLEAN : FinalizeChapter(c, dbOk)
    \/ \E dbOk \in BOOLEAN : PublicationPhaseRuns(dbOk)

SpecFeedback == Init /\ [][NextFeedback]_vars

-----------------------------------------------------------------------------
(* SpecQueue: the review queue on its own, under any sequence of calls.        *)

NextQueue ==
    \/ \E ch \in {ChapterId(1), ChapterId(2)}, t \in ReviewTypes : SubmitForHumanReview(ch, t)
    \/ \E r \in ReviewIdInputs, content \in {"", "edited"} :
          CompleteReview(r, content, "looks good", "Alice")
    \/ \E r \in ReviewIdInputs : RejectReview(r, "needs work")
    \/ \E r \in ReviewIdInputs : BulkAssignReviews("Bob", {r})

SpecQueue == Init /\ [][NextQueue]_vars

-----------------------------------------------------------------------------
(* SpecStore: the version store on its own, under any sequence of calls.       *)

VersionIds == {"v" \o ToString(k) : k \in 1..MaxVersions}

StoreChapters == {ChapterId(1), ChapterId(2)}

\* the versions a caller hands to save_version: any chapter, creation time, parent
\* and metadata, with an int among the metadata values; a field left empty is ""
InputMetadata == {EmptyMap, [word_count |-> MetaInt("1")]}

InputVersion(id, chapter_id, content, created_at, parent, metadata) ==
    [ContentVersion(id, chapter_id, content, "ai_written", "ai_writer", metadata, parent)
     EXCEPT !.id = id, !.created_at = created_at]

InputVersions ==
    {InputVersion(id, ch, content, t, parent, metadata) :
        id \in VersionIds \cup {""}, ch \in StoreChapters \cup {""},
        content \in {"text", ""}, t \in 1..MaxTime,
        parent \in {None} \cup VersionIds, metadata \in InputMetadata}

\* ids are uuids: a version is saved under an id the collection does not hold
SaveVersion(v, dbOk) ==
    /\ pc = "idle"
    /\ v.id \notin DOMAIN store
    /\ v.parent_version_id # v.id
    /\ store' = save_version(store, v, dbOk)
    /\ last' = [op |-> "save_version", arg |-> v.id, ret |-> SaveResult(v, dbOk)]
    /\ UNCHANGED <<pc, n, idx, inflight, loaded, results, chapters, current_phase,
                   workflow_stats, result, queueVars, nextId>>
    /\ UNCHANGED feedbackVars

UpdateVersionStatus(version_id, new_status, dbOk) ==
    /\ pc = "idle"
    /\ store' = update_version_status(store, version_id, new_status, dbOk)
    /\ last' = [op |-> "update_version_status", arg |-> version_id,
                ret |-> update_version_status_result(store, version_id, new_status, dbOk)]
    /\ UNCHANGED <<pc, n, idx, inflight, loaded, results, chapters, current_phase,
                   workflow_stats, result, queueVars, nextId>>
    /\ UNCHANGED feedbackVars

DeleteVersion(version_id, dbOk) ==
    /\ pc = "idle"
    /\ store' = delete_version(store, version_id, dbOk)
    /\ last' = [op |-> "delete_version", arg |-> version_id,
                ret |-> delete_version_result(store, version_id, dbOk)]
    /\ UNCHANGED <<pc, n, idx, inflight, loaded, results, chapters, current_phase,
                   workflow_stats, result, queueVars, nextId>>
    /\ UNCHANGED feedbackVars

NextStore ==
    \/ \E v \in InputVersions, dbOk \in BOOLEAN : SaveVersion(v, dbOk)
    \/ \E id \in VersionIds, dbOk \in BOOLEAN : UpdateVersionStatus(id, "published", dbOk)
    \/ \E id \in VersionIds, dbOk \in BOOLEAN : DeleteVersion(id, dbOk)

SpecStore == Init /\ [][NextStore]_vars

-----------------------------------------------------------------------------
(* SpecSearch: similarity search over a store of plain versions.               *)

\* cosine distances of a stored document to a query, in tenths
Distances == {1, 5, 9}

SearchVersions ==
    {InputVersion(id, ch, "text", 1, None, EmptyMap) : id \in VersionIds, ch \in StoreChapters}

\* the where clause is given at most one key
SearchSimilarContent(distance, chapter_id, n_results, status_filter) ==
    /\ pc = "idle"
    /\ ~(Truthy(chapter_id) /\ Truthy(status_filter))
    /\ last' = [op |-> "search_similar_content",
                arg |-> [distance |-> distance, chapter_id |-> chapter_id,
                         n_results |-> n_results, status_filter |-> status_filter],
                ret |-> search_similar_content(store, distance, chapter_id, n_results,
                                               status_filter)]
    /\ UNCHANGED <<runVars, queueVars, nextId>>
    /\ UNCHANGED feedbackVars

NextSearch ==
    \/ \E v \in SearchVersions : SaveVersion(v, TRUE)
    \/ \E id \in VersionIds : UpdateVersionStatus(id, "published", TRUE)
    \/ \E distance \in [DOMAIN store -> Distances], ch \in {None, ChapterId(1)},
          k \in {0, 1}, status \in {None, "published"} :
          SearchSimilarContent(distance, ch, k, status)

SpecSearch == Init /\ [][NextSearch]_vars

-----------------------------------------------------------------------------
(* SpecUrgency: _calculate_urgency over the ages a request can have.           *)

MaxMinutes == 4500    \* ages up to 75 hours, in minutes

\* faulty variant of _calculate_urgency: the thresholds are taken inclusively
calculate_urgency_inclusive(minutes) ==
    IF minutes >= 72 * 60 THEN "high"
    ELSE IF minutes >= 24 * 60 THEN "medium"
    ELSE "low"

\* _calculate_urgency for submitted_at `minutes` minutes before datetime.now():
\* hours_since_submission = total_seconds() / 3600 is compared as a real number, so
\* minutes / 60 > 72 is minutes > 72 * 60
calculate_urgency(minutes) ==
    IF minutes > 72 * 60 THEN "high"
    ELSE IF minutes > 24 * 60 THEN "medium"
    ELSE "low"

\* a call of _calculate_urgency; the reading of the clock is the caller's input
CalculateUrgency(minutes) ==
    /\ pc = "idle"
    /\ last' = [op |-> "_calculate_urgency", arg |-> minutes, ret |-> calculate_urgency(minutes)]
    /\ UNCHANGED <<runVars, queueVars, nextId>>
    /\ UNCHANGED feedbackVars

NextUrgency == \E minutes \in 0..MaxMinutes : CalculateUrgency(minutes)

SpecUrgency == Init /\ [][NextUrgency]_vars

-----------------------------------------------------------------------------
(* The counts of the review queue *)

\* get_review_statistics()['total_pending']: len(self.pending_reviews)
total_pending(pending) == Cardinality(DOMAIN pending)

\* get_reviewer_dashboard()['review_metrics']['pending_count']: the number of entries
\* listed under pending_reviews, those of status pending
pending_count(pending) == Cardinality({r \in DOMAIN pending : pending[r].status = "pending"})

-----------------------------------------------------------------------------
(* HumanFeedback (utils/human_feedback.py): a session over the                 *)
(* HumanReviewInterface the object constructs for itself.                      *)

ValueError == [raised |-> "ValueError"]

MaxContent == 210     \* length of the longest content handed to review

RECURSIVE Repeat(_, _)
Repeat(s, k) == IF k = 0 THEN "" ELSE s \o Repeat(s, k - 1)

\* a content longer than the preview of get_review_details
LongContent == Repeat("0123456789", MaxContent \div 10)

\* faulty variant of FeedbackContent: the review is completed with nothing
FeedbackContentEmpty(details, updated_content) == ""

\* provide_feedback: `if not updated_content:` takes the content_preview of the details
FeedbackContent(details, updated_content) ==
    IF Truthy(updated_content) THEN updated_content
    ELSE details.version_info.content_preview

\* start_review_session
StartReviewSession(review_id) ==
    /\ Suspended
    /\ LET review_details == get_review_details(review_interface.pending_reviews,
                                                review_interface.completed_reviews, review_id)
           session == [review_id |-> review_id,
                       started_at |-> Now,
                       content |-> review_details.version_info.content_preview,
                       review_type |-> review_details.review_type,
                       chapter_id |-> review_details.chapter_id]
       IN IF review_details = NoDetails
          THEN /\ last' = [op |-> "start_review_session", arg |-> review_id, ret |-> ValueError]
               /\ UNCHANGED current_session
          ELSE /\ current_session' = session
               /\ last' = [op |-> "start_review_session", arg |-> review_id, ret |-> session]
    /\ UNCHANGED <<runVars, queueVars, nextId, review_interface>>

\* provide_feedback; new_version is what complete_review returned to it
ProvideFeedback(feedback, updated_content) ==
    /\ Suspended
    /\ LET arg == [feedback |-> feedback, updated_content |-> updated_content]
           review_id == current_session.review_id
           pending == review_interface.pending_reviews
           completed == review_interface.completed_reviews
           content == FeedbackContent(get_review_details(pending, completed, review_id),
                                      updated_content)
           new_version == complete_review_result(pending, review_id,
                                                 CallerUuid(callerIds + 1), content, feedback,
                                                 "Human Reviewer")
       IN IF current_session = NoSession
          THEN /\ last' = [op |-> "provide_feedback", arg |-> arg, ret |-> ValueError,
                           new_version |-> NoVersion]
               /\ UNCHANGED <<review_interface, current_session, callerIds>>
          ELSE IF new_version = NoVersion
          THEN /\ last' = [op |-> "provide_feedback", arg |-> arg,
                           ret |-> [success |-> FALSE, error |-> "Failed to complete review",
                                    review_id |-> review_id],
                           new_version |-> NoVersion]
               /\ UNCHANGED <<review_interface, current_session, callerIds>>
          ELSE /\ review_interface' =
                     [pending_reviews |-> complete_review_pending(pending, review_id),
                      completed_reviews |-> complete_review_completed(pending, completed,
                                                                      review_id, feedback)]
               /\ current_session' = NoSession
               /\ callerIds' = callerIds + 1
               /\ last' = [op |-> "provide_feedback", arg |-> arg,
                           ret |-> [success |-> TRUE, review_id |-> review_id,
                                    feedback_length |-> Len(feedback),
                                    content_updated |-> content # current_session.content,
                                    new_version_id |-> new_version.id],
                           new_version |-> new_version]
    /\ UNCHANGED <<runVars, pending_reviews, completed_reviews, nextId>>

\* cancel_review: reject_review of the object's own interface
CancelReview(review_id, reason) ==
    /\ Suspended
    /\ last' = [op |-> "cancel_review", arg |-> [review_id |-> review_id, reason |-> reason],
                ret |-> reject_review_result(review_interface.pending_reviews, review_id)]
    /\ review_interface' =
          [review_interface EXCEPT !.pending_reviews = reject_review_pending(@, review_id, reason)]
    /\ UNCHANGED <<runVars, queueVars, nextId, current_session>>

\* the versions a caller hands to the interface of the HumanFeedback object
FeedbackContents == {"short", LongContent}

\* review_interface.submit_for_human_review, called on the HumanFeedback object's interface
SubmitToReviewInterface(content, review_type) ==
    /\ Suspended
    /\ Cardinality(DOMAIN review_interface.pending_reviews
                      \cup DOMAIN review_interface.completed_reviews) < MaxReviews
    /\ LET review_id == CallerUuid(callerIds + 1)
           version == ContentVersion("s-" \o ToString(Len(content)), ChapterId(1), content,
                                     "ai_reviewed", "ai_reviewer", EmptyMap, None)
       IN /\ review_interface' =
                [review_interface EXCEPT !.pending_reviews =
                    submit_for_human_review(@, review_id, ChapterId(1), version, review_type)]
          /\ last' = [op |-> "submit_for_human_review", arg |-> ChapterId(1), ret |-> review_id]
    /\ callerIds' = callerIds + 1
    /\ UNCHANGED <<runVars, pending_reviews, completed_reviews, nextId, current_session>>

FeedbackReviewIds ==
    DOMAIN review_interface.pending_reviews \cup DOMAIN review_interface.completed_reviews

(* SpecHumanFeedback: a HumanFeedback object whose interface is handed requests. *)
NextHumanFeedback ==
    \/ \E content \in FeedbackContents : SubmitToReviewInterface(content, "general")
    \/ \E r \in FeedbackReviewIds \cup {"unknown"} : StartReviewSession(r)
    \/ \E updated_content \in {None, "edited"} : ProvideFeedback("looks good", updated_content)
    \/ \E r \in FeedbackReviewIds : CancelReview(r, "needs work")

SpecHumanFeedback == Init /\ [][NextHumanFeedback]_vars

(* SpecApp: the application (app.py): a PublicationWorkflow and a HumanFeedback, *)
(* the reviewer opening the reviews the workflow's dashboard lists.              *)
NextApp ==
    \/ \E k \in 0..MaxChapters : StartPublication(k)
    \/ \E c \in ChapterPositions, o \in ResearchOutcomes, dbOk \in BOOLEAN :
          ResearchChapterReturns(c, o, dbOk)
    \/ ResearchGathered
    \/ LoopSkips
    \/ PhaseCompleted
    \/ \E c \in ChapterPositions : DraftChapterBegins(c)
    \/ \E c \in ChapterPositions, o \in GenerateOutcomes, dbOk \in BOOLEAN :
          DraftChapterReturns(c, o, dbOk)
    \/ \E c \in ChapterPositions : SpinChapterBegins(c)
    \/ \E c \in ChapterPositions, o \in SpinOutcomes, dbOk \in BOOLEAN :
          SpinChapterReturns(c, o, dbOk)
    \/ \E c \in ChapterPositions : ReviewChapterBegins(c)
    \/ \E c \in ChapterPositions, o \in ReviewOutcomes, dbOk \in BOOLEAN :
          ReviewChapterReturns(c, o, dbOk)
    \/ \E c \in ChapterPositions : HumanReviewChapter(c)
    \/ \E c \in ChapterPositions, dbOk \in BOOLEAN : FinalizeChapter(c, dbOk)
    \/ \E dbOk \in BOOLEAN : PublicationPhaseRuns(dbOk)
    \/ \E r \in DOMAIN pending_reviews : StartReviewSession(r)
    \/ ProvideFeedback("looks good", "edited")
    \/ \E r \in DOMAIN pending_reviews : CancelReview(r, "needs work")

SpecApp == Init /\ [][NextApp]_vars

-----------------------------------------------------------------------------
(* SpecLive: the run alone, no reviewer acting, every provider call returning  *)
(* or raising and the event loop resuming the coroutine whenever it can run.   *)
NextRun ==
    \/ \E k \in 0..MaxChapters : StartPublication(k)
    \/ \E c \in ChapterPositions, o \in ResearchOutcomes, dbOk \in BOOLEAN :
          ResearchChapterReturns(c, o, dbOk)
    \/ ResearchGathered
    \/ LoopSkips
    \/ PhaseCompleted
    \/ \E c \in ChapterPositions : DraftChapterBegins(c)
    \/ \E c \in ChapterPositions, o \in GenerateOutcomes, dbOk \in BOOLEAN :
          DraftChapterReturns(c, o, dbOk)
    \/ \E c \in ChapterPositions : SpinChapterBegins(c)
    \/ \E c \in ChapterPositions, o \in SpinOutcomes, dbOk \in BOOLEAN :
          SpinChapterReturns(c, o, dbOk)
    \/ \E c \in ChapterPositions : ReviewChapterBegins(c)
    \/ \E c \in ChapterPositions, o \in ReviewOutcomes, dbOk \in BOOLEAN :
          ReviewChapterReturns(c, o, dbOk)
    \/ \E c \in ChapterPositions : HumanReviewChapter(c)
    \/ \E c \in ChapterPositions, dbOk \in BOOLEAN : FinalizeChapter(c, dbOk)
    \/ \E dbOk \in BOOLEAN : PublicationPhaseRuns(dbOk)

SpecLive == Init /\ [][NextRun]_vars /\ WF_vars(NextRun)

-----------------------------------------------------------------------------
(* get_workflow_status *)

AttributeError == [raised |-> "AttributeError"]

\* get_workflow_status: Chapter (chapter_models.py lines 58-72) declares no completed_at,
\* the attribute exists only once _finalize_chapter has assigned it, so reading
\* chapter.completed_at of any other chapter raises AttributeError out of the call
get_workflow_status(chs, phase, stats) ==
    IF \E c \in DOMAIN chs : chs[c].completed_at = Unset
    THEN AttributeError
    ELSE [current_phase |-> phase,
          active_chapters |-> Len(chs),
          statistics |-> stats,
          chapter_status |->
              [id \in {chs[c].id : c \in DOMAIN chs} |->
                  LET chapter == chs[CHOOSE c \in DOMAIN chs : chs[c].id = id]
                  IN [title |-> chapter.title,
                      phase |-> chapter.current_phase,
                      completed_at |-> chapter.completed_at]]]

-----------------------------------------------------------------------------
(* Claims *)

Chain(p) == p \in {PhaseOrder[i] : i \in 1..Len(PhaseOrder)}

SingleStepForward(old, new) ==
    Chain(old) /\ Chain(new) /\ PhaseIndex(new) = PhaseIndex(old) + 1

Both == DOMAIN chapters \cap DOMAIN chapters'

\* C1: every change of a chapter's current_phase is one step forward along
\* research -> drafting -> spinning -> review -> human_review -> finalization ->
\* publication -> completed, or a move to failed; no phase is skipped and no chapter
\* moves back.
C1_PhaseOrder ==
    [][\A c \in Both :
          chapters'[c].current_phase # chapters[c].current_phase
          => \/ chapters'[c].current_phase = "failed"
             \/ SingleStepForward(chapters[c].current_phase, chapters'[c].current_phase)]_vars

ReviewStatus(review_id) ==
    IF review_id \in DOMAIN pending_reviews THEN pending_reviews[review_id].status
    ELSE IF review_id \in DOMAIN completed_reviews THEN completed_reviews[review_id].status
    ELSE "absent"

\* C2: a chapter is in finalization or publication only when the review request
\* submitted for it is resolved (its status is no longer pending).
C2_ReviewResolvedFirst ==
    \A c \in DOMAIN chapters :
        chapters[c].current_phase \in {"finalization", "publication", "completed"}
        => /\ "human_review_id" \in DOMAIN chapters[c].metadata
           /\ ReviewStatus(chapters[c].metadata["human_review_id"]) # "pending"

\* C3: failed is terminal: once a chapter's current_phase is failed, no later step
\* changes it.
C3_FailedIsTerminal ==
    [][\A c \in Both :
          chapters[c].current_phase = "failed" => chapters'[c].current_phase = "failed"]_vars

\* the state in which _research_phase has just ended
ResearchPhaseEnded == last.op = "_research_phase"

\* C4: when the research phase ends, every chapter whose research step failed has
\* current_phase failed, and every chapter whose research succeeded has current_phase
\* drafting and a research_version_id that names a scraped version of the store.
C4_ResearchOutcome ==
    ResearchPhaseEnded
    => \A c \in DOMAIN chapters :
          /\ results[c] = "false" => chapters[c].current_phase = "failed"
          /\ results[c] = "true"
             => /\ chapters[c].current_phase = "drafting"
                /\ chapters[c].research_version_id \in DOMAIN store
                /\ store[chapters[c].research_version_id].status = "scraped"

StepNames == {"_draft_chapter", "_spin_chapter", "_review_chapter",
              "_human_review_chapter", "_finalize_chapter"}

\* the step just taken is the end of chapter c's own step, and it returned False
OwnStepFailed(c) == last'.op \in StepNames /\ last'.arg = c /\ last'.ret = FALSE

\* C5: a provider failure for one chapter never sets another chapter's phase to
\* failed: a chapter becomes failed only when its own step returns False (or the
\* workflow is cancelled); and the run with chapters never ends in failed or returns
\* false: when it ends, start_publication returns true, the workflow phase is
\* completed and every chapter that is not failed is in publication.
C5_FailureIsolation ==
    [][/\ \A c \in Both :
             (chapters[c].current_phase # "failed" /\ chapters'[c].current_phase = "failed")
             => (last'.op = "cancel_workflow" \/ OwnStepFailed(c))
       /\ (pc # "done" /\ pc' = "done" /\ n' > 0)
          => /\ result' = "true"
             /\ current_phase' = "completed"
             /\ \A c \in DOMAIN chapters' :
                   chapters'[c].current_phase \in {"publication", "failed"}]_vars

\* the run ended with chapter 1 failed after its research provider failed and
\* chapter 2 in publication
C5_Witness ==
    /\ pc = "done"
    /\ n = 2
    /\ results[1] = "false"
    /\ chapters[1].current_phase = "failed"
    /\ chapters[2].current_phase = "publication"
    /\ result = "true"
    /\ current_phase = "completed"

\* C6: from the start of the drafting phase on, at most one provider call is in
\* flight, and within a serial phase the chapters are processed in list order: a
\* call starts only for the chapter at the loop position and only when none is in
\* flight, the loop position never moves back, and a step changes only the chapter
\* at the loop position and then moves the position past it.
C6_SerialInOrder ==
    [][/\ pc' \notin {"idle", "research"} => Cardinality(inflight') <= 1
       /\ pc \in SerialPhases
          => /\ \A c \in inflight' \ inflight : c = idx /\ inflight = {}
             /\ pc' = pc => idx' >= idx
             /\ last'.op # "cancel_workflow"
                => \A c \in Both : chapters'[c] # chapters[c] => (c = idx /\ idx' = idx + 1)]_vars

\* chapter 2's spin call is in flight after chapter 1's spin step has ended
C6_Witness ==
    /\ pc = "spinning"
    /\ n = 2
    /\ inflight = {2}
    /\ idx = 2
    /\ chapters[1].current_phase = "review"

\* the step just taken is the return of chapter c's provider call with a missing or
\* empty result
EmptyResultReturned(c) ==
    /\ c \in inflight
    /\ c \notin inflight'
    /\ pc \in {"drafting", "spinning", "review"}
    /\ "outcome" \in DOMAIN last'
    /\ last'.arg = c
    /\ last'.outcome \in {"empty", "none"}

\* C7 as stated: in drafting, spinning and review a missing or empty result makes
\* the chapter failed, persists no version, and the loop goes on with the next
\* chapter of the same phase.
C7_EmptyResultFails ==
    [][\A c \in Both :
          EmptyResultReturned(c)
          => /\ chapters'[c].current_phase = "failed"
             /\ store' = store
             /\ pc' = pc
             /\ idx' = c + 1]_vars

\* C7, amended: in drafting and review a missing or empty result makes the chapter
\* failed; in spinning an empty result makes the draft the spun version and the
\* chapter advances to review; in all three no version is persisted and the loop
\* goes on with the next chapter of the same phase.
C7_EmptyResultHandled ==
    [][\A c \in Both :
          EmptyResultReturned(c)
          => /\ store' = store
             /\ pc' = pc
             /\ idx' = c + 1
             /\ pc \in {"drafting", "review"} => chapters'[c].current_phase = "failed"
             /\ pc = "spinning"
                => /\ chapters'[c].current_phase = "review"
                   /\ chapters'[c].spun_version_id = chapters[c].draft_version_id]_vars

\* chapter 1's spin call returned an empty text: chapter 1 is in review with its
\* draft as spun version, and chapter 2 is next in the spinning loop
C7_Witness ==
    /\ pc = "spinning"
    /\ n = 2
    /\ last.op = "_spin_chapter"
    /\ "outcome" \in DOMAIN last
    /\ last.outcome = "empty"
    /\ last.arg = 1
    /\ chapters[1].current_phase = "review"
    /\ chapters[1].spun_version_id = chapters[1].draft_version_id
    /\ chapters[2].current_phase = "spinning"
    /\ idx = 2

StatusIn(pending, completed, review_id) ==
    IF review_id \in DOMAIN pending THEN pending[review_id].status
    ELSE IF review_id \in DOMAIN completed THEN completed[review_id].status
    ELSE "absent"

\* C8: a request's status changes only from pending to completed or from pending to
\* rejected: a completed or rejected request keeps its status under every call.
C8_StatusTerminal ==
    [][\A r \in KnownReviewIds :
          LET old == StatusIn(pending_reviews, completed_reviews, r)
              new == StatusIn(pending_reviews', completed_reviews', r)
          IN new # old => (old = "pending" /\ new \in {"completed", "rejected"})]_vars

\* the step just taken is complete_review on a request of the pending collection
CompletedPending == last'.op = "complete_review" /\ last'.arg.review_id \in DOMAIN pending_reviews

\* C9: complete_review on a request of the pending collection returns a new version
\* with status human_edited, producer human_editor, the request's chapter_id, the
\* given content, the reviewed version as parent and the feedback, reviewer name and
\* review id in its metadata; the request then has status completed and the feedback
\* as notes, is in the completed collection and is no longer in the pending one.
C9_CompleteReview ==
    [][CompletedPending
       => LET r == last'.arg.review_id
              review == pending_reviews[r]
              v == last'.ret
          IN /\ v.id \notin {None, Unset, review.version.id}
             /\ v.status = "human_edited"
             /\ v.agent_type = "human_editor"
             /\ v.chapter_id = review.chapter_id
             /\ v.content = last'.arg.updated_content
             /\ v.parent_version_id = review.version.id
             /\ v.metadata["feedback"].v = last'.arg.feedback
             /\ v.metadata["reviewer_name"].v = last'.arg.reviewer_name
             /\ v.metadata["review_id"].v = r
             /\ r \notin DOMAIN pending_reviews'
             /\ r \in DOMAIN completed_reviews'
             /\ completed_reviews'[r].status = "completed"
             /\ completed_reviews'[r].reviewer_notes = last'.arg.feedback
             /\ completed_reviews'[r].version = review.version]_vars

\* a pending request has just been completed with edited content
C9_Witness ==
    /\ last.op = "complete_review"
    /\ last.ret # NoVersion
    /\ last.ret.content = "edited"
    /\ last.arg.review_id \in DOMAIN completed_reviews
    /\ last.arg.review_id \notin DOMAIN pending_reviews

\* the step just taken is reject_review on a request of the pending collection
RejectedPending == last'.op = "reject_review" /\ last'.arg.review_id \in DOMAIN pending_reviews

\* C10: reject_review on a request of the pending collection sets its status to
\* rejected and its notes to the reason, returns true, keeps the request in the
\* pending collection and leaves the completed collection as it was;
\* get_pending_reviews no longer returns the request, get_review_details still does.
C10_RejectReview ==
    [][RejectedPending
       => LET r == last'.arg.review_id
          IN /\ last'.ret = TRUE
             /\ r \in DOMAIN pending_reviews'
             /\ pending_reviews'[r].status = "rejected"
             /\ pending_reviews'[r].reviewer_notes = last'.arg.reason
             /\ completed_reviews' = completed_reviews
             /\ \A o \in DOMAIN pending_reviews \ {r} :
                   o \in DOMAIN pending_reviews' /\ pending_reviews'[o] = pending_reviews[o]
             /\ r \notin get_pending_reviews(pending_reviews', None, None)
             /\ r \notin get_pending_reviews(pending_reviews', pending_reviews'[r].chapter_id,
                                             pending_reviews'[r].review_type)
             /\ get_review_details(pending_reviews', completed_reviews', r) # NoDetails
             /\ get_review_details(pending_reviews', completed_reviews', r).status = "rejected"]_vars

\* a request has just been rejected and is still in the pending collection
C10_Witness ==
    /\ last.op = "reject_review"
    /\ last.ret = TRUE
    /\ last.arg.review_id \in DOMAIN pending_reviews
    /\ pending_reviews[last.arg.review_id].status = "rejected"
    /\ last.arg.review_id \notin get_pending_reviews(pending_reviews, None, None)

\* the step just taken is complete_review or reject_review with an id that is not
\* in the pending collection
NotPendingCall ==
    /\ last'.op \in {"complete_review", "reject_review"}
    /\ last'.arg.review_id \notin DOMAIN pending_reviews

\* C11: complete_review and reject_review with an id that is not in the pending
\* collection (unknown or already completed) return None / False and leave both
\* collections, with every request in them, unchanged; get_review_details returns
\* None exactly for the ids that are in neither collection.
C11_NotFound ==
    [][/\ NotPendingCall
          => /\ last'.op = "complete_review" => last'.ret = NoVersion
             /\ last'.op = "reject_review" => last'.ret = FALSE
             /\ pending_reviews' = pending_reviews
             /\ completed_reviews' = completed_reviews
       /\ \A r \in ReviewIdInputs' :
             (get_review_details(pending_reviews', completed_reviews', r) = NoDetails)
             <=> (r \notin DOMAIN pending_reviews' \cup DOMAIN completed_reviews')]_vars

\* complete_review has just been called on a request that was already completed
C11_Witness ==
    /\ last.op = "complete_review"
    /\ last.ret = NoVersion
    /\ last.arg.review_id \in DOMAIN completed_reviews
    /\ completed_reviews[last.arg.review_id].status = "completed"
    /\ get_review_details(pending_reviews, completed_reviews, "unknown") = NoDetails

\* C12: every review id returned by submit_for_human_review is, from then on, in
\* exactly one of the pending and completed collections (it is never deleted and
\* never in both), and a request is in the completed collection exactly when its
\* status is completed.
C12_OneCollection ==
    [][/\ last'.op = "submit_for_human_review" => last'.ret \in DOMAIN pending_reviews'
       /\ KnownReviewIds \subseteq KnownReviewIds'
       /\ DOMAIN pending_reviews' \cap DOMAIN completed_reviews' = {}
       /\ \A r \in DOMAIN completed_reviews' : completed_reviews'[r].status = "completed"
       /\ \A r \in DOMAIN pending_reviews' : pending_reviews'[r].status # "completed"]_vars

\* one request has been completed and moved, another is rejected and still pending
C12_Witness ==
    /\ Cardinality(DOMAIN completed_reviews) = 1
    /\ \E r \in DOMAIN pending_reviews : pending_reviews[r].status = "rejected"
    /\ DOMAIN pending_reviews \cap DOMAIN completed_reviews = {}

\* the filters a caller gives to get_pending_reviews: None is no filter
ChapterFilters == {None, ChapterId(1), ChapterId(2), ChapterTitle(1)}
TypeFilters == {None} \cup ReviewTypes \cup {"style"}

\* the request with this id, in whichever collection it is
RequestOf(r) == IF r \in DOMAIN pending_reviews THEN pending_reviews[r] ELSE completed_reviews[r]

\* the requests of the queue with status pending that match the filters given
PendingMatching(chapter_id, review_type) ==
    {r \in KnownReviewIds :
        /\ RequestOf(r).status = "pending"
        /\ chapter_id # None => RequestOf(r).chapter_id = chapter_id
        /\ review_type # None => RequestOf(r).review_type = review_type}

\* C13: get_pending_reviews(chapter_id, review_type) returns exactly the requests
\* with status pending that match every filter given; a rejected or completed
\* request is never returned, after any sequence of operations.
C13_PendingOnly ==
    \A ch \in ChapterFilters, t \in TypeFilters :
        /\ get_pending_reviews(pending_reviews, ch, t) = PendingMatching(ch, t)
        /\ \A r \in get_pending_reviews(pending_reviews, ch, t) :
              StatusIn(pending_reviews, completed_reviews, r) = "pending"

\* the pending collection holds a rejected request and a pending one of another
\* chapter; the chapter filter returns only the pending one
C13_Witness ==
    \E r, q \in DOMAIN pending_reviews :
        /\ pending_reviews[r].status = "rejected"
        /\ pending_reviews[q].status = "pending"
        /\ pending_reviews[q].chapter_id = ChapterId(2)
        /\ pending_reviews[r].chapter_id = ChapterId(1)
        /\ get_pending_reviews(pending_reviews, ChapterId(2), None) = {q}
        /\ get_pending_reviews(pending_reviews, ChapterId(1), "general") = {}
        /\ get_pending_reviews(pending_reviews, None, None) = {q}

\* the step just taken is update_version_status on an id that was in the store
UpdatedStored == last'.op = "update_version_status" /\ last'.arg \in DOMAIN store

\* C14: update_version_status never leaves the version's id absent from the store:
\* after the call, also when the re-save fails once the old entry is removed,
\* get_version(id) still finds the version.
C14_NeverAbsent ==
    [][UpdatedStored => get_version(store', last'.arg) # NoVersion]_vars

\* what update_version_status keeps of a stored version: everything but the status
SameButStatus(before, after) ==
    /\ after # NoVersion
    /\ [after EXCEPT !.status = before.status] = before
    /\ get_content_hash(after) = get_content_hash(before)

\* C15: update_version_status on a stored id returns True and changes only the
\* status: id, chapter_id, content, content hash, producer, created_at, parent and
\* metadata read back by get_version are as before, and no other version changes; on
\* an id that is not stored it returns False and the store is unchanged.
C15_OnlyStatusChanges ==
    [][last'.op = "update_version_status"
       => IF last'.arg \in DOMAIN store
          THEN /\ last'.ret = TRUE
               /\ SameButStatus(get_version(store, last'.arg), get_version(store', last'.arg))
               /\ get_version(store', last'.arg).status = "published"
               /\ \A o \in DOMAIN store \ {last'.arg} : o \in DOMAIN store' /\ store'[o] = store[o]
          ELSE last'.ret = FALSE /\ store' = store]_vars

\* a version save_version validates: id, chapter_id and content all non-empty
WellFormed(v) == v.id # "" /\ v.chapter_id # "" /\ v.content # ""

\* the ids of the versions in a list
IdsOf(versions) == {versions[i].id : i \in 1..Len(versions)}

\* the versions a caller may hand to save_version in this state
Saveable == {v \in InputVersions : v.id \notin DOMAIN store}

\* C16: save_version returns False and adds nothing for a version with an empty id,
\* chapter_id or content, so every stored version has non-empty content; for any
\* other version that the collection accepts it returns True, and the version is
\* then found by get_version and listed by get_chapter_versions of its chapter.
C16_SaveValidates ==
    /\ \A id \in DOMAIN store : store[id].document # "" /\ get_version(store, id) # NoVersion
    /\ \A v \in Saveable, dbOk \in BOOLEAN :
          LET after == save_version(store, v, dbOk)
          IN /\ ~WellFormed(v) => (~SaveResult(v, dbOk) /\ after = store)
             /\ ~SaveResult(v, dbOk) => after = store
             /\ (WellFormed(v) /\ dbOk)
                => /\ SaveResult(v, dbOk)
                   /\ get_version(after, v.id) # NoVersion
                   /\ get_version(after, v.id).id = v.id
                   /\ v.id \in IdsOf(get_chapter_versions(after, v.chapter_id))
                   /\ \A o \in DOMAIN store : after[o] = store[o]

\* a version has just been saved and is listed for its chapter, and a save of a
\* version without content would be refused in this state
C16_Witness ==
    /\ last.op = "save_version"
    /\ last.ret = TRUE
    /\ last.arg \in DOMAIN store
    /\ last.arg \in IdsOf(get_chapter_versions(store, store[last.arg].chapter_id))
    /\ \E v \in Saveable : v.content = "" /\ v.id # "" /\ ~SaveResult(v, TRUE)

\* the step just taken is a successful save_version
SavedVersion == last'.op = "save_version" /\ last'.ret = TRUE

\* C17: get_version(v.id) after save_version(v) returns a version equal to v: the
\* version that was saved has the id, chapter_id, content and content hash, status,
\* producer, created_at, parent and metadata map that get_version reads back.
C17_RoundTrip ==
    [][SavedVersion
       => \E v \in InputVersions :
             /\ v.id = last'.arg
             /\ store' = save_version(store, v, TRUE)
             /\ get_version(store', v.id) = v
             /\ get_content_hash(get_version(store', v.id)) = get_content_hash(v)]_vars

\* the status filters a caller gives to get_latest_version: None is no filter
StatusFilters == {None, "ai_written", "published", "scraped"}

\* the stored versions of a chapter that match a status filter
Matches(chapter_id, status) ==
    {id \in DOMAIN store : /\ store[id].chapter_id = chapter_id
                           /\ status # None => store[id].status = status}

\* C18: get_latest_version(c, status) returns None when no stored version of chapter
\* c matches the filter, and otherwise a stored version of chapter c that matches it
\* and whose created_at is maximal among the matches, whatever the order of saving.
C18_Latest ==
    \A ch \in StoreChapters \cup {ChapterId(0)}, status \in StatusFilters :
        LET latest == get_latest_version(store, ch, status)
        IN IF Matches(ch, status) = {}
           THEN latest = NoVersion
           ELSE /\ latest.id \in Matches(ch, status)
                /\ latest = get_version(store, latest.id)
                /\ \A m \in Matches(ch, status) :
                      get_version(store, m).created_at <= latest.created_at

\* a chapter has an older published version and a newer written one: the latest is
\* the newer one, the latest published is the older one, and there is no latest
\* scraped version
C18_Witness ==
    \E x, y \in DOMAIN store :
        /\ last.op = "update_version_status" /\ last.arg = x /\ last.ret = TRUE
        /\ store[x].chapter_id = store[y].chapter_id
        /\ get_version(store, x).created_at < get_version(store, y).created_at
        /\ store[x].status = "published" /\ store[y].status = "ai_written"
        /\ get_latest_version(store, store[x].chapter_id, None).id = y
        /\ get_latest_version(store, store[x].chapter_id, "published").id = x
        /\ get_latest_version(store, store[x].chapter_id, "scraped") = NoVersion

IsStub(node) == "status" \notin DOMAIN node

\* how often a version id occurs in a tree: as the node of a top-level entry made
\* for the version, and in the children lists of the top-level entries
RECURSIVE CountIn(_, _)
CountIn(children, id) ==
    IF children = <<>> THEN 0
    ELSE (IF Head(children).id = id THEN 1 ELSE 0) + CountIn(Tail(children), id)
         + CountIn(Head(children).children, id)

RECURSIVE CountUnder(_, _, _)
CountUnder(tree, keys, id) ==
    IF keys = {} THEN 0
    ELSE LET k == CHOOSE x \in keys : TRUE
         IN CountIn(tree[k].children, id) + CountUnder(tree, keys \ {k}, id)

Occurrences(tree, id) ==
    (IF id \in DOMAIN tree /\ ~IsStub(tree[id]) THEN 1 ELSE 0)
    + CountUnder(tree, DOMAIN tree, id)

\* C19: get_version_tree of a chapter contains each stored version of the chapter
\* exactly once, as a root entry or nested in the children of its parent's node,
\* and has a stub node only for a parent id that is not among the chapter's versions.
C19_TreeHoldsEachOnce ==
    \A ch \in StoreChapters :
        LET tree == get_version_tree(store, ch)
            ids == {id \in DOMAIN store : store[id].chapter_id = ch}
        IN /\ \A id \in ids : Occurrences(tree, id) = 1
           /\ \A k \in DOMAIN tree : IsStub(tree[k]) => k \notin ids

\* C20: every (version, similarity) pair search_similar_content returns has a
\* similarity, 1 minus the distance, that is not below Config.SIMILARITY_THRESHOLD.
C20_AboveThreshold ==
    last.op = "search_similar_content"
    => \A i \in 1..Len(last.ret) :
          /\ last.ret[i].similarity = One - last.arg.distance[last.ret[i].version.id]
          /\ last.ret[i].similarity >= SIMILARITY_THRESHOLD

\* C21: delete_version on an id that is not stored returns False and leaves the
\* store unchanged; on a stored id it removes exactly that version and returns True.
C21_DeleteSignalsNotFound ==
    [][last'.op = "delete_version"
       => IF last'.arg \in DOMAIN store
          THEN /\ last'.ret = TRUE
               /\ DOMAIN store' = DOMAIN store \ {last'.arg}
               /\ \A o \in DOMAIN store' : store'[o] = store[o]
          ELSE last'.ret = FALSE /\ store' = store]_vars

\* C22: every stored version with a non-empty parent_version_id has that parent in
\* the store, after any sequence of save_version, update_version_status and
\* delete_version calls.
C22_ParentsStored ==
    \A id \in DOMAIN store :
        store[id].parent_version_id # "" => store[id].parent_version_id \in DOMAIN store

\* the step just taken is the publication phase of a run
PublicationPhaseEnded == pc = "publication" /\ pc' = "done"

\* the stored versions under the reserved chapter id
PublicationsIn(st) == {id \in DOMAIN st : st[id].chapter_id = PUBLICATION}

\* the chapters in phase publication, in list order
InPublication(chs) == SelectSeq(chs, LAMBDA ch : ch.current_phase = "publication")

\* title, final content and metadata of each chapter in phase publication
ExpectedEntries(chs, st) ==
    [i \in 1..Len(InPublication(chs)) |->
        [title |-> InPublication(chs)[i].title,
         content |-> get_version(st, InPublication(chs)[i].final_version_id).content,
         metadata |-> InPublication(chs)[i].metadata]]

\* C23: the publication phase of a run persists exactly one version with chapter id
\* PUBLICATION and status published; its document lists exactly the chapters whose
\* phase is publication, in list order, each with its title, the content of its
\* final version and its metadata.
C23_OnePublication ==
    [][PublicationPhaseEnded
       => /\ Cardinality(PublicationsIn(store')) = 1
          /\ \A c \in DOMAIN chapters' :
                chapters'[c].current_phase = "publication"
                => get_version(store', chapters'[c].final_version_id) # NoVersion
          /\ \A id \in PublicationsIn(store') :
                /\ store'[id].status = "published"
                /\ store'[id].document = PublicationDocument(ExpectedEntries(chapters', store'))]_vars

\* C24: start_publication returns True only when every chapter succeeded: only when
\* completed_chapters equals total_chapters at the end of the run.
C24_SuccessMeansAllCompleted ==
    (pc = "done" /\ result = "true")
    => workflow_stats.completed_chapters = workflow_stats.total_chapters

\* C25: cancel_workflow sets to failed every chapter whose phase is neither completed nor
\* failed, leaves the chapters already completed or failed as they are, changes neither
\* the version store nor the review queue, and returns True.
C25_CancelWorkflow ==
    [][last'.op = "cancel_workflow"
       => /\ DOMAIN chapters' = DOMAIN chapters
          /\ \A c \in DOMAIN chapters :
                /\ chapters[c].current_phase \in {"completed", "failed"}
                      => chapters'[c] = chapters[c]
                /\ chapters[c].current_phase \notin {"completed", "failed"}
                      => chapters'[c] = [chapters[c] EXCEPT !.current_phase = "failed"]
          /\ store' = store
          /\ pending_reviews' = pending_reviews
          /\ completed_reviews' = completed_reviews
          /\ last'.ret = TRUE]_vars

\* a run of two chapters cancelled while suspended, one chapter having failed on its own
\* step before and the versions of the other being in the store
C25_Witness ==
    /\ last.op = "cancel_workflow"
    /\ n = 2
    /\ inflight # {}
    /\ store # EmptyMap
    /\ workflow_stats.failed_chapters = 1
    /\ \A c \in DOMAIN chapters : chapters[c].current_phase = "failed"

\* C26: when start_publication returns after executing the phases, every chapter of the
\* run is in a terminal phase, completed or failed; none is left in a phase of the pipeline.
C26_ChaptersEndTerminal ==
    (pc = "done" /\ result = "true")
    => \A c \in DOMAIN chapters : chapters[c].current_phase \in {"completed", "failed"}

\* the review requests a step has added to the queue
SubmittedRequests == {r \in DOMAIN pending_reviews' : r \notin DOMAIN pending_reviews}

\* C27: the review request submitted for a chapter in human review carries the chapter's
\* id and the chapter's reviewed version, the version reviewed_version_id names in the
\* store, and the review id is in the chapter's metadata under human_review_id when the
\* chapter leaves human_review.
C27_RequestNamesChapterAndVersion ==
    [][(last'.op = "_human_review_chapter" /\ SubmittedRequests # {})
       => LET c == last'.arg
          IN \A r \in SubmittedRequests :
                /\ pending_reviews'[r].chapter_id = chapters[c].id
                /\ pending_reviews'[r].version.id = chapters[c].reviewed_version_id
                /\ pending_reviews'[r].version.id \in DOMAIN store
                /\ "human_review_id" \in DOMAIN chapters'[c].metadata
                /\ chapters'[c].metadata["human_review_id"] = r]_vars

C28_NoChangeCarriesForward ==
    [][(last'.op = "_human_review_chapter" /\ "requires_changes" \in DOMAIN last'
        /\ ~last'.requires_changes)
       => /\ chapters'[last'.arg].final_version_id = chapters[last'.arg].reviewed_version_id
          /\ chapters'[last'.arg].current_phase = "finalization"
          /\ store' = store]_vars

\* the pointer set by the phase a chapter last completed
LastPointer(ch) ==
    CASE ch.current_phase = "spinning" -> ch.draft_version_id
      [] ch.current_phase = "review" -> ch.spun_version_id
      [] ch.current_phase = "human_review" -> ch.reviewed_version_id
      [] OTHER -> ch.final_version_id

\* C29: while a chapter is in spinning, review, human_review, finalization or
\* publication, the pointer set by the phase it last completed names a version of the
\* store that carries the chapter's id (a draft being parented to the research version);
\* a step whose save_version fails does not advance the chapter.
C29_PointersStored ==
    \A c \in DOMAIN chapters :
        chapters[c].current_phase \in
            {"spinning", "review", "human_review", "finalization", "publication"}
        => /\ LastPointer(chapters[c]) \in DOMAIN store
           /\ store[LastPointer(chapters[c])].chapter_id = chapters[c].id
           /\ chapters[c].current_phase = "spinning"
                 => store[chapters[c].draft_version_id].parent_version_id
                       = chapters[c].research_version_id

\* the chapters of the run whose human-review step submitted the request review_id
ChaptersOfReview(review_id) ==
    {c \in DOMAIN chapters : /\ "human_review_id" \in DOMAIN chapters[c].metadata
                             /\ chapters[c].metadata["human_review_id"] = review_id}

\* C30: once the run has submitted a chapter's reviewed version v3 for human review and
\* the review is completed, the returned version v4 is human_edited with parent v3, and
\* get_latest_version for the chapter returns v4.
C30_CompletedReviewIsLatest ==
    [][CompletedPending
       => \A c \in ChaptersOfReview(last'.arg.review_id) :
             /\ last'.ret.status = "human_edited"
             /\ last'.ret.parent_version_id = chapters[c].reviewed_version_id
             /\ get_latest_version(store', chapters[c].id, None).id = last'.ret.id]_vars

\* the part of C30 complete_review keeps: the returned version is human_edited
C30_ReturnedIsHumanEdited ==
    [][(CompletedPending /\ ChaptersOfReview(last'.arg.review_id) # {})
       => last'.ret.status = "human_edited"]_vars

\* C31: a request aged h whole hours has urgency high when h > 72, medium when
\* 24 < h <= 72 and low when h <= 24; so 1 hour is low, 24 hours low, 25 hours medium,
\* 72 hours medium and 73 hours high.
C31_UrgencyBoundaries ==
    (last.op = "_calculate_urgency" /\ last.arg % 60 = 0)
    => LET h == last.arg \div 60
       IN /\ last.ret = (IF h > 72 THEN "high" ELSE IF h > 24 THEN "medium" ELSE "low")
          /\ h = 1 => last.ret = "low"
          /\ h = 24 => last.ret = "low"
          /\ h = 25 => last.ret = "medium"
          /\ h = 72 => last.ret = "medium"
          /\ h = 73 => last.ret = "high"

\* the urgency of a request aged exactly 72 hours has been computed
C31_Witness == last.op = "_calculate_urgency" /\ last.arg = 72 * 60 /\ last.ret = "medium"

\* the fields of a chapter its research task may write
SameButResearch(before, after) ==
    after = [before EXCEPT !.research_version_id = after.research_version_id,
                           !.versions = after.versions,
                           !.current_version = after.current_version]

\* C32: in the concurrent research fan-out, under every interleaving, the task of
\* chapter c changes only chapter c's research_version_id, versions and
\* current_version and adds to the store only versions with chapter c's id; it changes
\* neither another chapter nor the run statistics.
C32_ResearchTaskIsolated ==
    [][last'.op = "_research_chapter"
       => LET c == last'.arg
          IN /\ DOMAIN chapters' = DOMAIN chapters
             /\ \A d \in DOMAIN chapters : d # c => chapters'[d] = chapters[d]
             /\ SameButResearch(chapters[c], chapters'[c])
             /\ workflow_stats' = workflow_stats
             /\ \A id \in DOMAIN store : id \in DOMAIN store' /\ store'[id] = store[id]
             /\ \A id \in DOMAIN store' \ DOMAIN store :
                   store'[id].chapter_id = chapters[c].id]_vars

\* two research tasks in flight have returned in the order opposite to the chapter
\* list, each with its own version recorded and stored
C32_Witness ==
    /\ last.op = "_research_chapter" /\ last.arg = 1 /\ last.ret = TRUE
    /\ n = 2
    /\ pc = "research"
    /\ inflight = {}
    /\ chapters[2].research_version_id \in DOMAIN store
    /\ chapters[1].research_version_id \in DOMAIN store
    /\ chapters[1].research_version_id # chapters[2].research_version_id
    /\ FromIsoFormat(store[chapters[1].research_version_id].created_at)
          > FromIsoFormat(store[chapters[2].research_version_id].created_at)

\* C33: once cancel_workflow has been invoked while the run is suspended on a provider
\* call, the run's current_phase stays failed: the run neither sets it to a later phase
\* or to completed, nor does start_publication return True.
\* (In drafting, spinning and review the run is suspended only inside a provider call
\* and each phase function begins by setting current_phase, so current_phase = failed
\* there means cancel_workflow ran during a provider call of that phase.)
C33_CancelledStaysFailed ==
    [][(current_phase = "failed" /\ pc \in {"drafting", "spinning", "review"})
       => (current_phase' = "failed" /\ result' # "true")]_vars

\* the chapters of the run that are in phase failed
FailedChapters(chs) == {c \in DOMAIN chs : chs[c].current_phase = "failed"}

\* the part of C34 that holds within one run: the counters never exceed total_chapters
C34_CountersBounded ==
    workflow_stats.completed_chapters + workflow_stats.failed_chapters
        <= workflow_stats.total_chapters

\* C34: completed_chapters + failed_chapters never exceeds total_chapters, and when a
\* run ends failed_chapters is the number of the run's chapters in phase failed and
\* completed_chapters + failed_chapters equals total_chapters.
C34_CountersMatchChapters ==
    [][/\ workflow_stats'.completed_chapters + workflow_stats'.failed_chapters
             <= workflow_stats'.total_chapters
       /\ PublicationPhaseEnded
             => /\ workflow_stats'.failed_chapters = Cardinality(FailedChapters(chapters'))
                /\ workflow_stats'.completed_chapters + workflow_stats'.failed_chapters
                      = workflow_stats'.total_chapters]_vars

\* C35: every chapter in phase publication has a final version that is in the version
\* store with status published, also when update_version_status fails in finalization.
C35_PublishedFinalStored ==
    \A c \in DOMAIN chapters :
        chapters[c].current_phase = "publication"
        => /\ chapters[c].final_version_id \in DOMAIN store
           /\ store[chapters[c].final_version_id].status = "published"

\* C36: after any sequence of submit, complete and reject calls, total_pending of
\* get_review_statistics equals the number of requests get_pending_reviews returns
\* without a filter and equals pending_count of get_reviewer_dashboard.
C36_PendingCountsAgree ==
    /\ total_pending(pending_reviews)
          = Cardinality(get_pending_reviews(pending_reviews, None, None))
    /\ total_pending(pending_reviews) = pending_count(pending_reviews)

\* the part of C36 that holds: the dashboard and get_pending_reviews agree
C36_DashboardAgreesWithListing ==
    pending_count(pending_reviews)
        = Cardinality(get_pending_reviews(pending_reviews, None, None))

\* the review ids the orchestrator has stored in its chapters
StoredReviewIds(chs) ==
    {chs[c].metadata["human_review_id"] :
        c \in {d \in DOMAIN chs : "human_review_id" \in DOMAIN chs[d].metadata}}

\* C37: the human-feedback surface and the orchestrator work on the same review
\* requests: a review id the orchestrator stored under human_review_id can be opened
\* with HumanFeedback.start_review_session, as the application wires the two objects.
C37_SessionOpensStoredReview ==
    [][(last'.op = "start_review_session" /\ last'.arg \in StoredReviewIds(chapters))
       => /\ last'.ret # ValueError
          /\ current_session'.review_id = last'.arg]_vars

\* C38: provide_feedback without updated content completes the review with a new version
\* whose content is the full content of the version under review, whatever its length.
C38_FeedbackKeepsFullContent ==
    [][(last'.op = "provide_feedback" /\ last'.new_version # NoVersion
        /\ ~Truthy(last'.arg.updated_content))
       => last'.new_version.content
             = review_interface.pending_reviews[current_session.review_id].version.content]_vars

\* the part of C38 that holds: content no longer than the preview is kept as it is
C38_ShortContentKept ==
    [][(last'.op = "provide_feedback" /\ last'.new_version # NoVersion
        /\ ~Truthy(last'.arg.updated_content)
        /\ Len(review_interface.pending_reviews[current_session.review_id].version.content)
              <= PreviewLimit)
       => last'.new_version.content
             = review_interface.pending_reviews[current_session.review_id].version.content]_vars

\* start_publication returns: the coroutine reaches its end
Returns == pc # "done" /\ pc' = "done"

\* the termination part of C39, which holds: every call of start_publication returns,
\* with no reviewer completing any review
C39_EventuallyReturns == (pc # "idle") ~> (pc = "done")

\* C39: provided every provider call returns or raises, every call of
\* start_publication, also with no chapters, eventually returns without waiting on a
\* pending human review (C39_EventuallyReturns), and at the return current_phase is
\* completed if it returned True and failed if it returned False.
C39_PhaseMatchesResult ==
    [][Returns => /\ result' = "true" => current_phase' = "completed"
                  /\ result' = "false" => current_phase' = "failed"]_vars

\* C40: get_workflow_status can be called in any state of a run, before, during and
\* after it, with chapters in any phase, and returns the run's current phase, the
\* statistics and the phase of every chapter without raising.
C40_StatusNeverRaises ==
    Suspended
    => LET status == get_workflow_status(chapters, current_phase, workflow_stats)
       IN /\ status # AttributeError
          /\ status.current_phase = current_phase
          /\ status.statistics = workflow_stats
          /\ \A c \in DOMAIN chapters :
                /\ chapters[c].id \in DOMAIN status.chapter_status
                /\ status.chapter_status[chapters[c].id].phase = chapters[c].current_phase

\* the case in which the call returns: every chapter of the run has been finalized
C40_ReportsWhenAllFinalized ==
    (Suspended /\ \A c \in DOMAIN chapters : chapters[c].completed_at # Unset)
    => LET status == get_workflow_status(chapters, current_phase, workflow_stats)
       IN /\ status # AttributeError
          /\ status.current_phase = current_phase
          /\ status.statistics = workflow_stats
          /\ \A c \in DOMAIN chapters :
                /\ chapters[c].id \in DOMAIN status.chapter_status
                /\ status.chapter_status[chapters[c].id].phase = chapters[c].current_phase

====
